---- MODULE Spec2Model ----
(***************************************************************************)
(* Query-intent translation layer of the career guidance system            *)
(* (src/ai_service.py) and the service start-up around it (src/app.py).    *)
(*                                                                         *)
(* A Python str is modelled as a sequence of one-character strings, so     *)
(* that substring tests, regular expressions, strip/split/replace and      *)
(* lower() are computed character by character as the code computes them.  *)
(* Generated Cypher text is a TLA+ string built with \o.                   *)
(***************************************************************************)
EXTENDS Integers, Sequences, FiniteSets, TLC

(***************************************************************************)
(* Characters.  A character of the Latin-1 range (U+0000 to U+00FF) is the *)
(* one-character string; a character beyond it is written as its code     *)
(* point, "<U+0663>".  The alphabet of the model is the Latin-1 range, the *)
(* Unicode decimal digits, the Unicode white space and the characters      *)
(* named below; the functions of this section are those of Python on       *)
(* strings over this alphabet.                                             *)
(***************************************************************************)
UpperSeq == <<"A","B","C","D","E","F","G","H","I","J","K","L","M","N","O","P","Q","R","S","T","U","V","W","X","Y","Z">>

LowerSeq == <<"a","b","c","d","e","f","g","h","i","j","k","l","m","n","o","p","q","r","s","t","u","v","w","x","y","z">>

DigitSeq == <<"0","1","2","3","4","5","6","7","8","9">>

\* the regex classes [A-Z] and [a-z]
UpperChars == {UpperSeq[i] : i \in 1..Len(UpperSeq)}

LowerChars == {LowerSeq[i] : i \in 1..Len(LowerSeq)}

\* the decimal digits beyond ASCII (Unicode category Nd) in code point
\* order: runs of ten characters, each from the digit zero to the digit nine
\* the decimal digits of Unicode (category Nd), in tens: the character at
\* index i has the value (i - 1) % 10
DecimalDigitSeq == DigitSeq \o <<
    "<U+0660>", "<U+0661>", "<U+0662>", "<U+0663>", "<U+0664>", "<U+0665>",
    "<U+0666>", "<U+0667>", "<U+0668>", "<U+0669>", "<U+06F0>", "<U+06F1>",
    "<U+06F2>", "<U+06F3>", "<U+06F4>", "<U+06F5>", "<U+06F6>", "<U+06F7>",
    "<U+06F8>", "<U+06F9>", "<U+07C0>", "<U+07C1>", "<U+07C2>", "<U+07C3>",
    "<U+07C4>", "<U+07C5>", "<U+07C6>", "<U+07C7>", "<U+07C8>", "<U+07C9>",
    "<U+0966>", "<U+0967>", "<U+0968>", "<U+0969>", "<U+096A>", "<U+096B>",
    "<U+096C>", "<U+096D>", "<U+096E>", "<U+096F>", "<U+09E6>", "<U+09E7>",
    "<U+09E8>", "<U+09E9>", "<U+09EA>", "<U+09EB>", "<U+09EC>", "<U+09ED>",
    "<U+09EE>", "<U+09EF>", "<U+0A66>", "<U+0A67>", "<U+0A68>", "<U+0A69>",
    "<U+0A6A>", "<U+0A6B>", "<U+0A6C>", "<U+0A6D>", "<U+0A6E>", "<U+0A6F>",
    "<U+0AE6>", "<U+0AE7>", "<U+0AE8>", "<U+0AE9>", "<U+0AEA>", "<U+0AEB>",
    "<U+0AEC>", "<U+0AED>", "<U+0AEE>", "<U+0AEF>", "<U+0B66>", "<U+0B67>",
    "<U+0B68>", "<U+0B69>", "<U+0B6A>", "<U+0B6B>", "<U+0B6C>", "<U+0B6D>",
    "<U+0B6E>", "<U+0B6F>", "<U+0BE6>", "<U+0BE7>", "<U+0BE8>", "<U+0BE9>",
    "<U+0BEA>", "<U+0BEB>", "<U+0BEC>", "<U+0BED>", "<U+0BEE>", "<U+0BEF>",
    "<U+0C66>", "<U+0C67>", "<U+0C68>", "<U+0C69>", "<U+0C6A>", "<U+0C6B>",
    "<U+0C6C>", "<U+0C6D>", "<U+0C6E>", "<U+0C6F>", "<U+0CE6>", "<U+0CE7>",
    "<U+0CE8>", "<U+0CE9>", "<U+0CEA>", "<U+0CEB>", "<U+0CEC>", "<U+0CED>",
    "<U+0CEE>", "<U+0CEF>", "<U+0D66>", "<U+0D67>", "<U+0D68>", "<U+0D69>",
    "<U+0D6A>", "<U+0D6B>", "<U+0D6C>", "<U+0D6D>", "<U+0D6E>", "<U+0D6F>",
    "<U+0DE6>", "<U+0DE7>", "<U+0DE8>", "<U+0DE9>", "<U+0DEA>", "<U+0DEB>",
    "<U+0DEC>", "<U+0DED>", "<U+0DEE>", "<U+0DEF>", "<U+0E50>", "<U+0E51>",
    "<U+0E52>", "<U+0E53>", "<U+0E54>", "<U+0E55>", "<U+0E56>", "<U+0E57>",
    "<U+0E58>", "<U+0E59>", "<U+0ED0>", "<U+0ED1>", "<U+0ED2>", "<U+0ED3>",
    "<U+0ED4>", "<U+0ED5>", "<U+0ED6>", "<U+0ED7>", "<U+0ED8>", "<U+0ED9>",
    "<U+0F20>", "<U+0F21>", "<U+0F22>", "<U+0F23>", "<U+0F24>", "<U+0F25>",
    "<U+0F26>", "<U+0F27>", "<U+0F28>", "<U+0F29>", "<U+1040>", "<U+1041>",
    "<U+1042>", "<U+1043>", "<U+1044>", "<U+1045>", "<U+1046>", "<U+1047>",
    "<U+1048>", "<U+1049>", "<U+1090>", "<U+1091>", "<U+1092>", "<U+1093>",
    "<U+1094>", "<U+1095>", "<U+1096>", "<U+1097>", "<U+1098>", "<U+1099>",
    "<U+17E0>", "<U+17E1>", "<U+17E2>", "<U+17E3>", "<U+17E4>", "<U+17E5>",
    "<U+17E6>", "<U+17E7>", "<U+17E8>", "<U+17E9>", "<U+1810>", "<U+1811>",
    "<U+1812>", "<U+1813>", "<U+1814>", "<U+1815>", "<U+1816>", "<U+1817>",
    "<U+1818>", "<U+1819>", "<U+1946>", "<U+1947>", "<U+1948>", "<U+1949>",
    "<U+194A>", "<U+194B>", "<U+194C>", "<U+194D>", "<U+194E>", "<U+194F>",
    "<U+19D0>", "<U+19D1>", "<U+19D2>", "<U+19D3>", "<U+19D4>", "<U+19D5>",
    "<U+19D6>", "<U+19D7>", "<U+19D8>", "<U+19D9>", "<U+1A80>", "<U+1A81>",
    "<U+1A82>", "<U+1A83>", "<U+1A84>", "<U+1A85>", "<U+1A86>", "<U+1A87>",
    "<U+1A88>", "<U+1A89>", "<U+1A90>", "<U+1A91>", "<U+1A92>", "<U+1A93>",
    "<U+1A94>", "<U+1A95>", "<U+1A96>", "<U+1A97>", "<U+1A98>", "<U+1A99>",
    "<U+1B50>", "<U+1B51>", "<U+1B52>", "<U+1B53>", "<U+1B54>", "<U+1B55>",
    "<U+1B56>", "<U+1B57>", "<U+1B58>", "<U+1B59>", "<U+1BB0>", "<U+1BB1>",
    "<U+1BB2>", "<U+1BB3>", "<U+1BB4>", "<U+1BB5>", "<U+1BB6>", "<U+1BB7>",
    "<U+1BB8>", "<U+1BB9>", "<U+1C40>", "<U+1C41>", "<U+1C42>", "<U+1C43>",
    "<U+1C44>", "<U+1C45>", "<U+1C46>", "<U+1C47>", "<U+1C48>", "<U+1C49>",
    "<U+1C50>", "<U+1C51>", "<U+1C52>", "<U+1C53>", "<U+1C54>", "<U+1C55>",
    "<U+1C56>", "<U+1C57>", "<U+1C58>", "<U+1C59>", "<U+A620>", "<U+A621>",
    "<U+A622>", "<U+A623>", "<U+A624>", "<U+A625>", "<U+A626>", "<U+A627>",
    "<U+A628>", "<U+A629>", "<U+A8D0>", "<U+A8D1>", "<U+A8D2>", "<U+A8D3>",
    "<U+A8D4>", "<U+A8D5>", "<U+A8D6>", "<U+A8D7>", "<U+A8D8>", "<U+A8D9>",
    "<U+A900>", "<U+A901>", "<U+A902>", "<U+A903>", "<U+A904>", "<U+A905>",
    "<U+A906>", "<U+A907>", "<U+A908>", "<U+A909>", "<U+A9D0>", "<U+A9D1>",
    "<U+A9D2>", "<U+A9D3>", "<U+A9D4>", "<U+A9D5>", "<U+A9D6>", "<U+A9D7>",
    "<U+A9D8>", "<U+A9D9>", "<U+A9F0>", "<U+A9F1>", "<U+A9F2>", "<U+A9F3>",
    "<U+A9F4>", "<U+A9F5>", "<U+A9F6>", "<U+A9F7>", "<U+A9F8>", "<U+A9F9>",
    "<U+AA50>", "<U+AA51>", "<U+AA52>", "<U+AA53>", "<U+AA54>", "<U+AA55>",
    "<U+AA56>", "<U+AA57>", "<U+AA58>", "<U+AA59>", "<U+ABF0>", "<U+ABF1>",
    "<U+ABF2>", "<U+ABF3>", "<U+ABF4>", "<U+ABF5>", "<U+ABF6>", "<U+ABF7>",
    "<U+ABF8>", "<U+ABF9>", "<U+FF10>", "<U+FF11>", "<U+FF12>", "<U+FF13>",
    "<U+FF14>", "<U+FF15>", "<U+FF16>", "<U+FF17>", "<U+FF18>", "<U+FF19>",
    "<U+104A0>", "<U+104A1>", "<U+104A2>", "<U+104A3>", "<U+104A4>",
    "<U+104A5>", "<U+104A6>", "<U+104A7>", "<U+104A8>", "<U+104A9>",
    "<U+10D30>", "<U+10D31>", "<U+10D32>", "<U+10D33>", "<U+10D34>",
    "<U+10D35>", "<U+10D36>", "<U+10D37>", "<U+10D38>", "<U+10D39>",
    "<U+11066>", "<U+11067>", "<U+11068>", "<U+11069>", "<U+1106A>",
    "<U+1106B>", "<U+1106C>", "<U+1106D>", "<U+1106E>", "<U+1106F>",
    "<U+110F0>", "<U+110F1>", "<U+110F2>", "<U+110F3>", "<U+110F4>",
    "<U+110F5>", "<U+110F6>", "<U+110F7>", "<U+110F8>", "<U+110F9>",
    "<U+11136>", "<U+11137>", "<U+11138>", "<U+11139>", "<U+1113A>",
    "<U+1113B>", "<U+1113C>", "<U+1113D>", "<U+1113E>", "<U+1113F>",
    "<U+111D0>", "<U+111D1>", "<U+111D2>", "<U+111D3>", "<U+111D4>",
    "<U+111D5>", "<U+111D6>", "<U+111D7>", "<U+111D8>", "<U+111D9>",
    "<U+112F0>", "<U+112F1>", "<U+112F2>", "<U+112F3>", "<U+112F4>",
    "<U+112F5>", "<U+112F6>", "<U+112F7>", "<U+112F8>", "<U+112F9>",
    "<U+11450>", "<U+11451>", "<U+11452>", "<U+11453>", "<U+11454>",
    "<U+11455>", "<U+11456>", "<U+11457>", "<U+11458>", "<U+11459>",
    "<U+114D0>", "<U+114D1>", "<U+114D2>", "<U+114D3>", "<U+114D4>",
    "<U+114D5>", "<U+114D6>", "<U+114D7>", "<U+114D8>", "<U+114D9>",
    "<U+11650>", "<U+11651>", "<U+11652>", "<U+11653>", "<U+11654>",
    "<U+11655>", "<U+11656>", "<U+11657>", "<U+11658>", "<U+11659>",
    "<U+116C0>", "<U+116C1>", "<U+116C2>", "<U+116C3>", "<U+116C4>",
    "<U+116C5>", "<U+116C6>", "<U+116C7>", "<U+116C8>", "<U+116C9>",
    "<U+11730>", "<U+11731>", "<U+11732>", "<U+11733>", "<U+11734>",
    "<U+11735>", "<U+11736>", "<U+11737>", "<U+11738>", "<U+11739>",
    "<U+118E0>", "<U+118E1>", "<U+118E2>", "<U+118E3>", "<U+118E4>",
    "<U+118E5>", "<U+118E6>", "<U+118E7>", "<U+118E8>", "<U+118E9>",
    "<U+11950>", "<U+11951>", "<U+11952>", "<U+11953>", "<U+11954>",
    "<U+11955>", "<U+11956>", "<U+11957>", "<U+11958>", "<U+11959>",
    "<U+11C50>", "<U+11C51>", "<U+11C52>", "<U+11C53>", "<U+11C54>",
    "<U+11C55>", "<U+11C56>", "<U+11C57>", "<U+11C58>", "<U+11C59>",
    "<U+11D50>", "<U+11D51>", "<U+11D52>", "<U+11D53>", "<U+11D54>",
    "<U+11D55>", "<U+11D56>", "<U+11D57>", "<U+11D58>", "<U+11D59>",
    "<U+11DA0>", "<U+11DA1>", "<U+11DA2>", "<U+11DA3>", "<U+11DA4>",
    "<U+11DA5>", "<U+11DA6>", "<U+11DA7>", "<U+11DA8>", "<U+11DA9>",
    "<U+16A60>", "<U+16A61>", "<U+16A62>", "<U+16A63>", "<U+16A64>",
    "<U+16A65>", "<U+16A66>", "<U+16A67>", "<U+16A68>", "<U+16A69>",
    "<U+16AC0>", "<U+16AC1>", "<U+16AC2>", "<U+16AC3>", "<U+16AC4>",
    "<U+16AC5>", "<U+16AC6>", "<U+16AC7>", "<U+16AC8>", "<U+16AC9>",
    "<U+16B50>", "<U+16B51>", "<U+16B52>", "<U+16B53>", "<U+16B54>",
    "<U+16B55>", "<U+16B56>", "<U+16B57>", "<U+16B58>", "<U+16B59>",
    "<U+1D7CE>", "<U+1D7CF>", "<U+1D7D0>", "<U+1D7D1>", "<U+1D7D2>",
    "<U+1D7D3>", "<U+1D7D4>", "<U+1D7D5>", "<U+1D7D6>", "<U+1D7D7>",
    "<U+1D7D8>", "<U+1D7D9>", "<U+1D7DA>", "<U+1D7DB>", "<U+1D7DC>",
    "<U+1D7DD>", "<U+1D7DE>", "<U+1D7DF>", "<U+1D7E0>", "<U+1D7E1>",
    "<U+1D7E2>", "<U+1D7E3>", "<U+1D7E4>", "<U+1D7E5>", "<U+1D7E6>",
    "<U+1D7E7>", "<U+1D7E8>", "<U+1D7E9>", "<U+1D7EA>", "<U+1D7EB>",
    "<U+1D7EC>", "<U+1D7ED>", "<U+1D7EE>", "<U+1D7EF>", "<U+1D7F0>",
    "<U+1D7F1>", "<U+1D7F2>", "<U+1D7F3>", "<U+1D7F4>", "<U+1D7F5>",
    "<U+1D7F6>", "<U+1D7F7>", "<U+1D7F8>", "<U+1D7F9>", "<U+1D7FA>",
    "<U+1D7FB>", "<U+1D7FC>", "<U+1D7FD>", "<U+1D7FE>", "<U+1D7FF>",
    "<U+1E140>", "<U+1E141>", "<U+1E142>", "<U+1E143>", "<U+1E144>",
    "<U+1E145>", "<U+1E146>", "<U+1E147>", "<U+1E148>", "<U+1E149>",
    "<U+1E2F0>", "<U+1E2F1>", "<U+1E2F2>", "<U+1E2F3>", "<U+1E2F4>",
    "<U+1E2F5>", "<U+1E2F6>", "<U+1E2F7>", "<U+1E2F8>", "<U+1E2F9>",
    "<U+1E950>", "<U+1E951>", "<U+1E952>", "<U+1E953>", "<U+1E954>",
    "<U+1E955>", "<U+1E956>", "<U+1E957>", "<U+1E958>", "<U+1E959>",
    "<U+1FBF0>", "<U+1FBF1>", "<U+1FBF2>", "<U+1FBF3>", "<U+1FBF4>",
    "<U+1FBF5>", "<U+1FBF6>", "<U+1FBF7>", "<U+1FBF8>", "<U+1FBF9>" >>

\* the characters the regex class \d matches in a str pattern, which are
\* also the digits float() reads
DigitChars == {DecimalDigitSeq[i] : i \in 1..Len(DecimalDigitSeq)}

\* the character ` (U+0060), which a TLA+ string literal cannot contain
Backtick == "<backtick>"

\* the characters str.strip() removes and the regex class \s matches:
\* U+0009 to U+000D, U+001C to U+001F, the blank, U+0085, U+00A0 and the
\* Unicode spaces beyond Latin-1
Whitespace == {
    "\t", "\n", "", "\f", "\r", "", "", "", "", " ",
    "", " ",
    "<U+1680>", "<U+2000>", "<U+2001>", "<U+2002>", "<U+2003>", "<U+2004>",
    "<U+2005>", "<U+2006>", "<U+2007>", "<U+2008>", "<U+2009>", "<U+200A>",
    "<U+2028>", "<U+2029>", "<U+202F>", "<U+205F>", "<U+3000>" }

\* a lone surrogate (as a str decoded with surrogateescape holds it): no
\* encoding of sys.stdout can encode it
LoneSurrogate == "<U+DC80>"

(***************************************************************************)
(* Python str primitives                                                   *)
(***************************************************************************)
\* Python's None
None == <<"<None>">>

\* Python truth value of an optional str
Truthy(v) == v # None /\ v # <<>>

SetMin(S) == CHOOSE x \in S : \A y \in S : x <= y

SetMax(S) == CHOOSE x \in S : \A y \in S : x >= y

\* the characters with a one-character lowercase form: A-Z, the Latin-1
\* capitals, KELVIN SIGN (U+212A) and GREEK CAPITAL LETTER SIGMA (U+03A3)
CasedUpperSeq ==
    UpperSeq \o <<"À","Á","Â","Ã","Ä","Å","Æ","Ç","È","É","Ê","Ë","Ì","Í","Î","Ï","Ð","Ñ","Ò","Ó","Ô","Õ","Ö","Ø","Ù","Ú","Û","Ü","Ý","Þ">> \o <<"<U+212A>", "<U+03A3>">>

\* their lowercase forms, index by index (U+03C3 is the small sigma)
CasedLowerSeq ==
    LowerSeq \o <<"à","á","â","ã","ä","å","æ","ç","è","é","ê","ë","ì","í","î","ï","ð","ñ","ò","ó","ô","õ","ö","ø","ù","ú","û","ü","ý","þ">> \o <<"k", "<U+03C3>">>

\* the lowercase form of one character, its context left aside
LowerChar(c) ==
    IF \E i \in 1..Len(CasedUpperSeq) : CasedUpperSeq[i] = c
    THEN CasedLowerSeq[CHOOSE i \in 1..Len(CasedUpperSeq) : CasedUpperSeq[i] = c]
    ELSE c

\* Final_Sigma: the capital sigma at i follows a cased letter and is not
\* followed by one, case-ignorable characters skipped on both sides
final_sigma(s, i) ==
    LET \* the characters with the Unicode property Case_Ignorable (the
        \* last two are COMBINING DOT ABOVE and VARIATION SELECTOR-16)
        CaseIgnorable ==
            {"'", ".", ":", "^", Backtick, "¨", "­", "¯", "´", "·", "¸",
             "<U+0307>", "<U+FE0F>"}
        \* the characters with the Unicode property Cased (the last two
        \* are the capital I with dot above and the final sigma)
        Cased ==
            {CasedUpperSeq[j] : j \in 1..Len(CasedUpperSeq)}
            \cup {CasedLowerSeq[j] : j \in 1..Len(CasedLowerSeq)}
            \cup {"ª", "µ", "º", "ß", "ÿ"}
            \cup {"<U+0130>", "<U+03C2>"}
        before == {j \in 1..(i - 1) : s[j] \notin CaseIgnorable}
        after  == {j \in (i + 1)..Len(s) : s[j] \notin CaseIgnorable}
    IN  /\ before # {}
        /\ s[SetMax(before)] \in Cased
        /\ (after = {} \/ s[SetMin(after)] \notin Cased)

\* what str.lower() puts in the place of the character at i: the capital
\* I with dot above (U+0130) becomes i and COMBINING DOT ABOVE, a capital
\* sigma in final position becomes the final sigma (U+03C2)
LowerAt(s, i) ==
    IF s[i] = "<U+0130>" THEN <<"i", "<U+0307>">>
    ELSE IF s[i] = "<U+03A3>" /\ final_sigma(s, i) THEN <<"<U+03C2>">>
    ELSE <<LowerChar(s[i])>>

\* the concatenation of a sequence of sequences
RECURSIVE Flatten(_)
Flatten(parts) ==
    IF parts = <<>> THEN <<>>
    ELSE IF Len(parts) = 1 THEN parts[1]
    ELSE LET h == Len(parts) \div 2
         IN  Flatten(SubSeq(parts, 1, h)) \o Flatten(SubSeq(parts, h + 1, Len(parts)))

\* str.lower()
Lower(s) ==
    IF \E i \in 1..Len(s) : s[i] = "<U+0130>"
    THEN Flatten([i \in 1..Len(s) |-> LowerAt(s, i)])
    ELSE [i \in 1..Len(s) |-> LowerAt(s, i)[1]]

\* t occurs in s starting at index i
MatchAt(s, t, i) ==
    /\ i >= 1
    /\ i + Len(t) - 1 <= Len(s)
    /\ \A j \in 1..Len(t) : s[i + j - 1] = t[j]

\* Python's  t in s
Contains(s, t) == \E i \in 1..(Len(s) - Len(t) + 1) : MatchAt(s, t, i)

\* str.startswith
StartsWith(s, t) == MatchAt(s, t, 1)

\* str.strip()
Strip(s) ==
    LET keep == {i \in 1..Len(s) : s[i] \notin Whitespace}
    IN  IF keep = {} THEN <<>> ELSE SubSeq(s, SetMin(keep), SetMax(keep))

\* str.rstrip(chars)
RStrip(s, chars) ==
    LET keep == {i \in 1..Len(s) : s[i] \notin chars}
    IN  IF keep = {} THEN <<>> ELSE SubSeq(s, 1, SetMax(keep))

\* str.replace(old, new) for non-empty old: leftmost, non-overlapping
RECURSIVE Replace(_, _, _)
Replace(s, old, new) ==
    LET hits == {i \in 1..Len(s) : MatchAt(s, old, i)}
    IN  IF hits = {} THEN s
        ELSE LET i == SetMin(hits)
             IN  SubSeq(s, 1, i - 1) \o new
                 \o Replace(SubSeq(s, i + Len(old), Len(s)), old, new)

\* str.split(sep) for a one-character sep
RECURSIVE Split(_, _)
Split(s, sep) ==
    LET hits == {i \in 1..Len(s) : s[i] = sep}
    IN  IF hits = {} THEN <<s>>
        ELSE <<SubSeq(s, 1, SetMin(hits) - 1)>>
             \o Split(SubSeq(s, SetMin(hits) + 1, Len(s)), sep)

\* sep.join(parts)
RECURSIVE Join(_, _)
Join(parts, sep) ==
    IF parts = <<>> THEN <<>>
    ELSE IF Len(parts) = 1 THEN parts[1]
    ELSE parts[1] \o sep \o Join(Tail(parts), sep)

\* the text a character sequence denotes, as inlined by an f-string
RECURSIVE Str(_)
Str(s) ==
    IF s = <<>> THEN ""
    ELSE IF Len(s) = 1 THEN s[1]
    ELSE LET h == Len(s) \div 2
         IN  Str(SubSeq(s, 1, h)) \o Str(SubSeq(s, h + 1, Len(s)))

\* any(k in s for k in keywords)
AnyIn(keywords, s) == \E i \in 1..Len(keywords) : Contains(s, keywords[i])

(***************************************************************************)
(* Natural numbers of any size, for the arithmetic of float(): sequences   *)
(* of the digits 0..9, most significant first, without leading zeros;      *)
(* <<>> is zero.                                                           *)
(***************************************************************************)
BigStrip(a) ==
    LET nz == {i \in 1..Len(a) : a[i] # 0}
    IN  IF nz = {} THEN <<>> ELSE SubSeq(a, SetMin(nz), Len(a))

\* -1, 0 or 1 as a is less than, equal to or greater than b
BigCmp(a, b) ==
    IF Len(a) # Len(b) THEN (IF Len(a) < Len(b) THEN -1 ELSE 1)
    ELSE LET d == {i \in 1..Len(a) : a[i] # b[i]}
         IN  IF d = {} THEN 0
             ELSE IF a[SetMin(d)] < b[SetMin(d)] THEN -1 ELSE 1

\* a written with n digits
BigPad(a, n) ==
    [i \in 1..n |-> IF i <= n - Len(a) THEN 0 ELSE a[i - (n - Len(a))]]

\* F(x) with x evaluated once, before F is applied
Let(x, F(_)) == CHOOSE r \in {F(v) : v \in {x}} : TRUE

RECURSIVE BigOfInt(_)
BigOfInt(n) == IF n = 0 THEN <<>> ELSE BigOfInt(n \div 10) \o <<n % 10>>

\* a * k + c for a factor k below 2^27: the digits in the width of a, and
\* the carry out of them
RECURSIVE MulCarry(_, _, _)
MulCarry(a, k, c) ==
    IF a = <<>> THEN [carry |-> c, digits |-> <<>>]
    ELSE IF Len(a) = 1
    THEN [carry |-> (a[1] * k + c) \div 10, digits |-> <<(a[1] * k + c) % 10>>]
    ELSE LET h == Len(a) \div 2
             high(lo) ==
                 LET hi == MulCarry(SubSeq(a, 1, h), k, lo.carry)
                 IN  [carry |-> hi.carry, digits |-> hi.digits \o lo.digits]
         IN  Let(MulCarry(SubSeq(a, h + 1, Len(a)), k, c), high)

BigMulSmall(a, k) ==
    LET r == MulCarry(a, k, 0) IN BigStrip(BigOfInt(r.carry) \o r.digits)

\* a + b + c for a and b of the same width
RECURSIVE AddCarry(_, _, _)
AddCarry(a, b, c) ==
    IF a = <<>> THEN [carry |-> c, digits |-> <<>>]
    ELSE IF Len(a) = 1
    THEN [carry |-> (a[1] + b[1] + c) \div 10, digits |-> <<(a[1] + b[1] + c) % 10>>]
    ELSE LET h == Len(a) \div 2
             high(lo) ==
                 LET hi == AddCarry(SubSeq(a, 1, h), SubSeq(b, 1, h), lo.carry)
                 IN  [carry |-> hi.carry, digits |-> hi.digits \o lo.digits]
         IN  Let(AddCarry(SubSeq(a, h + 1, Len(a)), SubSeq(b, h + 1, Len(b)), c), high)

BigAdd(a, b) ==
    LET n == IF Len(a) > Len(b) THEN Len(a) ELSE Len(b)
        r == AddCarry(BigPad(a, n), BigPad(b, n), 0)
    IN  BigStrip(<<r.carry>> \o r.digits)

\* a - b - c for a and b of the same width; carry is the borrow
RECURSIVE SubBorrow(_, _, _)
SubBorrow(a, b, c) ==
    IF a = <<>> THEN [carry |-> c, digits |-> <<>>]
    ELSE IF Len(a) = 1
    THEN LET v == a[1] - b[1] - c
         IN  [carry |-> IF v < 0 THEN 1 ELSE 0,
              digits |-> <<IF v < 0 THEN v + 10 ELSE v>>]
    ELSE LET h == Len(a) \div 2
             high(lo) ==
                 LET hi == SubBorrow(SubSeq(a, 1, h), SubSeq(b, 1, h), lo.carry)
                 IN  [carry |-> hi.carry, digits |-> hi.digits \o lo.digits]
         IN  Let(SubBorrow(SubSeq(a, h + 1, Len(a)), SubSeq(b, h + 1, Len(b)), c), high)

\* a - b for a >= b
BigSub(a, b) == BigStrip(SubBorrow(a, BigPad(b, Len(a)), 0).digits)

\* a * 2^n
RECURSIVE BigShl(_, _)
BigShl(a, n) ==
    LET rest(x) == BigShl(x, n - (n \div 2))
    IN  IF n > 27 THEN Let(BigShl(a, n \div 2), rest)
        ELSE BigMulSmall(a, 2 ^ n)

\* a * 5^n
RECURSIVE BigMulPow5(_, _)
BigMulPow5(a, n) ==
    LET rest(x) == BigMulPow5(x, n - (n \div 2))
    IN  IF n > 11 THEN Let(BigMulPow5(a, n \div 2), rest)
        ELSE BigMulSmall(a, 5 ^ n)

\* a * 10^n
BigMulPow10(a, n) == IF a = <<>> THEN a ELSE a \o [i \in 1..n |-> 0]

\* long division: the digits of rest are brought down one by one onto the
\* remainder r of the state st, each giving one more digit of the quotient q
RECURSIVE LongDiv(_, _, _)
LongDiv(rest, b, st) ==
    IF rest = <<>> THEN st
    ELSE IF Len(rest) = 1
    THEN LET down(r1) ==
                 LET k == SetMax({j \in 0..9 : BigCmp(BigMulSmall(b, j), r1) <= 0})
                 IN  [q |-> Append(st.q, k), r |-> BigSub(r1, BigMulSmall(b, k))]
         IN  Let(BigStrip(st.r \o rest), down)
    ELSE LET h == Len(rest) \div 2
             more(s) == LongDiv(SubSeq(rest, h + 1, Len(rest)), b, s)
         IN  Let(LongDiv(SubSeq(rest, 1, h), b, st), more)

\* quotient and remainder of a by b > 0
BigDivMod(a, b) ==
    LET n  == IF Len(a) < Len(b) - 1 THEN Len(a) ELSE Len(b) - 1
        st == LongDiv(SubSeq(a, n + 1, Len(a)), b, [q |-> <<>>, r |-> SubSeq(a, 1, n)])
    IN  [q |-> BigStrip(st.q), r |-> st.r]

(***************************************************************************)
(* Numbers: float(text) and the f-string rendering of a number.  A float   *)
(* is an IEEE 754 double, written <<"float", digits, decpt>> with the      *)
(* digits d1..dk of its shortest decimal (the one repr() prints) and the   *)
(* position of the decimal point: the value is 0.d1..dk * 10^decpt.  0.0   *)
(* has no digits; the digits of infinity are "inf".                        *)
(***************************************************************************)
\* the value of a decimal digit (of any script)
DigitVal(c) ==
    ((CHOOSE i \in 1..Len(DecimalDigitSeq) : DecimalDigitSeq[i] = c) - 1) % 10

RECURSIVE DigitsOfInt(_)
DigitsOfInt(n) ==
    IF n < 10 THEN <<DigitSeq[n + 1]>>
    ELSE DigitsOfInt(n \div 10) \o <<DigitSeq[(n % 10) + 1]>>

\* 2^53: the mantissa q of a normal double is in [2^52, 2^53)
Two53 == <<9, 0, 0, 7, 1, 9, 9, 2, 5, 4, 7, 4, 0, 9, 9, 2>>

\* floor and remainder of (num / den) / 2^e, and the divisor used
ScaledQuotient(num, den, e) ==
    LET over(A) ==
            LET under(B) ==
                    LET qr == BigDivMod(A, B) IN [q |-> qr.q, r |-> qr.r, B |-> B]
            IN  Let(IF e > 0 THEN BigShl(den, e) ELSE den, under)
    IN  Let(IF e < 0 THEN BigShl(num, 0 - e) ELSE num, over)

\* the exponent e >= -1074 at which the quotient is in [2^52, 2^53) (below
\* 2^52 only at e = -1074, the subnormal doubles)
RECURSIVE DoubleExponent(_, _, _)
DoubleExponent(num, den, e) ==
    LET adjust(q) ==
            IF BigCmp(q, Two53) >= 0 THEN DoubleExponent(num, den, e + 1)
            ELSE IF BigCmp(q, <<4, 5, 0, 3, 5, 9, 9, 6, 2, 7, 3, 7, 0, 4, 9, 6>>) < 0 /\ e > -1074
            THEN DoubleExponent(num, den, e - 1)
            ELSE e
    IN  Let(ScaledQuotient(num, den, e).q, adjust)

\* the double nearest to 0.d1..dk * 10^decpt, ties to the even mantissa:
\* q * 2^e, or zero (underflow), or infinity (overflow).  A value below
\* 10^-324 is under half the least double 2^-1074, one from 10^309 is over
\* the greatest.
NearestDouble(digits, decpt) ==
    LET E10 == decpt - Len(digits)
        num == IF E10 >= 0 THEN BigMulPow10(digits, E10) ELSE digits
        den == IF E10 >= 0 THEN <<1>> ELSE BigMulPow10(<<1>>, 0 - E10)
        est == (((decpt - 1) * 33219) \div 10000) - 52
        at(e0) ==
            LET round(sq) ==
                    LET half == BigCmp(BigMulSmall(sq.r, 2), sq.B)
                        odd  == sq.q # <<>> /\ sq.q[Len(sq.q)] % 2 = 1
                        q1   == IF half > 0 \/ (half = 0 /\ odd)
                                THEN BigAdd(sq.q, <<1>>) ELSE sq.q
                        q    == IF q1 = Two53 THEN <<4, 5, 0, 3, 5, 9, 9, 6, 2, 7, 3, 7, 0, 4, 9, 6>> ELSE q1
                        e    == IF q1 = Two53 THEN e0 + 1 ELSE e0
                    IN  IF q = <<>> THEN [kind |-> "zero", q |-> <<>>, e |-> 0]
                        ELSE IF e > 971 THEN [kind |-> "inf", q |-> <<>>, e |-> 0]
                        ELSE [kind |-> "finite", q |-> q, e |-> e]
            IN  Let(ScaledQuotient(num, den, e0), round)
    IN  IF decpt <= -324 THEN [kind |-> "zero", q |-> <<>>, e |-> 0]
        ELSE IF decpt >= 310 THEN [kind |-> "inf", q |-> <<>>, e |-> 0]
        ELSE Let(DoubleExponent(num, den, IF est < -1074 THEN -1074 ELSE est), at)

\* without the trailing zeros
BigRStrip(a) ==
    LET nz == {i \in 1..Len(a) : a[i] # 0}
    IN  IF nz = {} THEN <<>> ELSE SubSeq(a, 1, SetMax(nz))

\* of the decimals of the fewest digits between Lo and Hi (the two taken
\* in when closed), the nearest to X, ties to the even digit; all three are
\* written to the same power of ten
ShortestBetween(X, Lo, Hi, closed) ==
    LET n         == Len(X)
        inside(c) == /\ (BigCmp(c, Lo) > 0 \/ (BigCmp(c, Lo) = 0 /\ closed))
                     /\ (BigCmp(c, Hi) < 0 \/ (BigCmp(c, Hi) = 0 /\ closed))
        T(k)      == [i \in 1..n |-> IF i <= k THEN X[i] ELSE 0]
        U(k)      == BigAdd(T(k), [i \in 1..(n - k + 1) |-> IF i = 1 THEN 1 ELSE 0])
        k         == SetMin({j \in 1..(IF n < 17 THEN n ELSE 17) :
                                 inside(T(j)) \/ inside(U(j))})
        h         == BigCmp(BigSub(X, T(k)), BigSub(U(k), X))
    IN  IF inside(T(k)) /\ inside(U(k))
        THEN (IF h < 0 \/ (h = 0 /\ X[k] % 2 = 0) THEN T(k) ELSE U(k))
        ELSE IF inside(T(k)) THEN T(k) ELSE U(k)

\* the shortest decimal that float() reads back as the double q * 2^e, and
\* of those of that length the nearest to it: the digits and the position
\* of the decimal point.  The doubles read back as q * 2^e lie between the
\* midpoints to its neighbours, taken in when q is even; the neighbour below
\* a power of two is at half the distance.  17 significant digits tell any
\* two doubles apart.
ShortestDecimal(q, e) ==
    LET q4        == BigMulSmall(q, 4)
        boundary  == q = <<4, 5, 0, 3, 5, 9, 9, 6, 2, 7, 3, 7, 0, 4, 9, 6>> /\ e > -1074
        lo4       == BigSub(q4, IF boundary THEN <<1>> ELSE <<2>>)
        hi4       == BigAdd(q4, <<2>>)
        scaled(x) == IF e >= 2 THEN BigShl(x, e - 2) ELSE BigMulPow5(x, 2 - e)
        even      == q[Len(q)] % 2 = 0
        from(X) ==
            LET above(Lo) ==
                    LET below(Hi) ==
                            LET point(c) ==
                                    [digits |-> BigRStrip(c),
                                     decpt |-> Len(c) + (IF e >= 2 THEN 0 ELSE e - 2)]
                            IN  Let(ShortestBetween(X, Lo, Hi, even), point)
                    IN  Let(scaled(hi4), below)
            IN  Let(scaled(lo4), above)
    IN  Let(scaled(q4), from)

\* float(text) for a text of the form \d+(\.\d+)? : a decimal of up to 15
\* significant digits is its own shortest decimal; a longer one is rounded
\* to the nearest double first
float(text) ==
    LET dots   == {i \in 1..Len(text) : text[i] = "."}
        ip     == IF dots = {} THEN text ELSE SubSeq(text, 1, SetMin(dots) - 1)
        fp     == IF dots = {} THEN <<>> ELSE SubSeq(text, SetMin(dots) + 1, Len(text))
        all    == [i \in 1..(Len(ip) + Len(fp)) |->
                      DigitVal(IF i <= Len(ip) THEN ip[i] ELSE fp[i - Len(ip)])]
        lead   == BigStrip(all)
        decpt  == Len(ip) - (Len(all) - Len(lead))
        digits == BigRStrip(lead)
        chars(ds) == [i \in 1..Len(ds) |-> DigitSeq[ds[i] + 1]]
        shortest(d) ==
            LET point(s) == <<"float", chars(s.digits), s.decpt>>
            IN  IF d.kind = "zero" THEN <<"float", <<>>, 0>>
                ELSE IF d.kind = "inf" THEN <<"float", <<"i","n","f">>, 0>>
                ELSE Let(ShortestDecimal(d.q, d.e), point)
    IN  IF digits = <<>> THEN <<"float", <<>>, 0>>
        ELSE IF Len(digits) <= 15 /\ decpt >= -290 /\ decpt <= 290
        THEN <<"float", chars(digits), decpt>>
        ELSE Let(NearestDouble(digits, decpt), shortest)

\* Python truth value of an optional number (0 and 0.0 are false)
TruthyNumber(x) ==
    /\ x # None
    /\ IF x[1] = "int" THEN x[2] # 0 ELSE x[2] # <<>>

\* repr() of a float: positional notation while -4 < decpt <= 16, otherwise
\* the exponent notation d.ddde+XX
float_repr(digits, decpt) ==
    LET zeros(n) == [i \in 1..n |-> "0"]
        ex       == decpt - 1
        absex    == IF ex < 0 THEN 0 - ex ELSE ex
    IN  IF digits = <<"i","n","f">> THEN digits
        ELSE IF digits = <<>> THEN <<"0",".","0">>
        ELSE IF decpt > -4 /\ decpt <= 16
        THEN IF decpt <= 0 THEN <<"0",".">> \o zeros(0 - decpt) \o digits
             ELSE IF Len(digits) <= decpt
             THEN digits \o zeros(decpt - Len(digits)) \o <<".","0">>
             ELSE SubSeq(digits, 1, decpt) \o <<".">>
                  \o SubSeq(digits, decpt + 1, Len(digits))
        ELSE <<digits[1]>>
             \o (IF Len(digits) > 1 THEN <<".">> \o Tail(digits) ELSE <<>>)
             \o <<"e", IF ex < 0 THEN "-" ELSE "+">>
             \o (IF absex < 10 THEN <<"0">> ELSE <<>>) \o DigitsOfInt(absex)

\* str(x) of a number inside an f-string: 8.0 -> "8.0", 3.5 -> "3.5", 8 -> "8"
FormatNumber(x) ==
    IF x[1] = "int" THEN DigitsOfInt(x[2]) ELSE float_repr(x[2], x[3])

(***************************************************************************)
(* print() to sys.stdout: the text is encoded in the encoding of the       *)
(* stream; a character the encoding does not have goes to the error        *)
(* handler of the stream, which is 'strict' (UnicodeEncodeError) or, under *)
(* the C and C.UTF-8 locales and in UTF-8 mode, 'surrogateescape' (a lone  *)
(* surrogate U+DC80 .. U+DCFF is written as the byte it stands for, any    *)
(* other character is a UnicodeEncodeError)                                *)
(***************************************************************************)
\* the pictographs the messages of the program start with (the warning
\* sign is two characters, U+26A0 and the variation selector U+FE0F)
Pictograph ==
    [robot   |-> "<U+1F916>",
     chart   |-> "<U+1F4CA>",
     check   |-> "<U+2705>",
     cross   |-> "<U+274C>",
     warning |-> <<"<U+26A0>", "<U+FE0F>">>,
     arrows  |-> "<U+1F504>",
     pushpin |-> "<U+1F4CC>"]

\* no exception
NoException == [type |-> "none", message |-> <<>>]

\* the characters of the alphabet that the encodings other than UTF-8
\* have: ascii U+0000 .. U+007F, cp1252 these and U+00A0 .. U+00FF; and
\* the characters U+0080 .. U+00FF in code point order
Charset ==
    LET ascii == {
        "<U+0000>", "", "", "", "", "", "", "", "", "\t", "\n", "",
        "\f", "\r", "", "", "", "", "", "", "", "", "", "", "",
        "", "", "", "", "", "", "", " ", "!", "\"", "#", "$", "%",
        "&", "'", "(", ")", "*", "+", ",", "-", ".", "/", "0", "1", "2", "3",
        "4", "5", "6", "7", "8", "9", ":", ";", "<", "=", ">", "?", "@", "A",
        "B", "C", "D", "E", "F", "G", "H", "I", "J", "K", "L", "M", "N", "O",
        "P", "Q", "R", "S", "T", "U", "V", "W", "X", "Y", "Z", "[", "\\",
        "]", "^", "_", Backtick, "a", "b", "c", "d", "e", "f", "g", "h", "i",
        "j", "k", "l", "m", "n", "o", "p", "q", "r", "s", "t", "u", "v", "w",
        "x", "y", "z", "{", "|", "}", "~", "" }
        high == <<
        "", "", "", "", "", "", "", "", "", "", "", "", "", "",
        "", "", "", "", "", "", "", "", "", "", "", "", "", "",
        "", "", "", "", " ", "¡", "¢", "£", "¤", "¥", "¦", "§", "¨", "©",
        "ª", "«", "¬", "­", "®", "¯", "°", "±", "²", "³", "´", "µ", "¶", "·",
        "¸", "¹", "º", "»", "¼", "½", "¾", "¿", "À", "Á", "Â", "Ã", "Ä", "Å",
        "Æ", "Ç", "È", "É", "Ê", "Ë", "Ì", "Í", "Î", "Ï", "Ð", "Ñ", "Ò", "Ó",
        "Ô", "Õ", "Ö", "×", "Ø", "Ù", "Ú", "Û", "Ü", "Ý", "Þ", "ß", "à", "á",
        "â", "ã", "ä", "å", "æ", "ç", "è", "é", "ê", "ë", "ì", "í", "î", "ï",
        "ð", "ñ", "ò", "ó", "ô", "õ", "ö", "÷", "ø", "ù", "ú", "û", "ü", "ý",
        "þ", "ÿ" >>
    IN  [ascii  |-> ascii,
         cp1252 |-> ascii \cup {high[i] : i \in 33..128},
         high   |-> high]

\* the encoding and the error handler of sys.stdout the interpreter starts
\* with: a UTF-8 locale (strict), the C.UTF-8 locale or UTF-8 mode, the
\* C locale, PYTHONIOENCODING=ascii, and a redirected stream on a cp1252
\* system
Stdouts ==
    {[encoding |-> "utf-8",  errors |-> "strict"],
     [encoding |-> "utf-8",  errors |-> "surrogateescape"],
     [encoding |-> "ascii",  errors |-> "surrogateescape"],
     [encoding |-> "ascii",  errors |-> "strict"],
     [encoding |-> "cp1252", errors |-> "strict"]}

\* whether the encoding of sys.stdout has the character: UTF-8 (all but
\* the surrogates), ascii (the C locale) or cp1252 (a console code page)
encodable(c, out) ==
    CASE out.encoding = "utf-8"  -> c # LoneSurrogate
      [] out.encoding = "ascii"  -> c \in Charset.ascii
      [] out.encoding = "cp1252" -> c \in Charset.cp1252

\* str() of the UnicodeEncodeError for the characters start .. end of the
\* text
encode_error_message(text, out, start, end) ==
    LET \* the code points of the digit zero of each run of ten of
        \* DecimalDigitSeq after the first
        zeros == <<
            1632, 1776, 1984, 2406, 2534, 2662, 2790, 2918, 3046, 3174, 3302,
            3430, 3558, 3664, 3792, 3872, 4160, 4240, 6112, 6160, 6470, 6608,
            6784, 6800, 6992, 7088, 7232, 7248, 42528, 43216, 43264, 43472,
            43504, 43600, 44016, 65296, 66720, 68912, 69734, 69872, 69942,
            70096, 70384, 70736, 70864, 71248, 71360, 71472, 71904, 72016,
            72784, 73040, 73120, 92768, 92864, 93008, 120782, 120792, 120802,
            120812, 120822, 123200, 123632, 125264, 130032 >>
        \* the code points of the other characters beyond U+00FF
        others == {
            <<"<U+0130>", 304>>, <<"<U+0307>", 775>>, <<"<U+03A3>", 931>>,
            <<"<U+03C2>", 962>>, <<"<U+03C3>", 963>>, <<"<U+1680>", 5760>>,
            <<"<U+2000>", 8192>>, <<"<U+2001>", 8193>>, <<"<U+2002>", 8194>>,
            <<"<U+2003>", 8195>>, <<"<U+2004>", 8196>>, <<"<U+2005>", 8197>>,
            <<"<U+2006>", 8198>>, <<"<U+2007>", 8199>>, <<"<U+2008>", 8200>>,
            <<"<U+2009>", 8201>>, <<"<U+200A>", 8202>>, <<"<U+2028>", 8232>>,
            <<"<U+2029>", 8233>>, <<"<U+202F>", 8239>>, <<"<U+205F>", 8287>>,
            <<"<U+212A>", 8490>>, <<"<U+26A0>", 9888>>, <<"<U+2705>", 9989>>,
            <<"<U+274C>", 10060>>, <<"<U+3000>", 12288>>,
            <<"<U+DC80>", 56448>>, <<"<U+FE0F>", 65039>>,
            <<"<U+1F4CA>", 128202>>, <<"<U+1F4CC>", 128204>>,
            <<"<U+1F504>", 128260>>, <<"<U+1F916>", 129302>> }
        \* ord(c) of a character beyond U+007F
        ord(c) ==
            IF \E i \in 1..128 : Charset.high[i] = c
            THEN 127 + (CHOOSE i \in 1..128 : Charset.high[i] = c)
            ELSE IF \E i \in 11..Len(DecimalDigitSeq) : DecimalDigitSeq[i] = c
            THEN LET i == CHOOSE i \in 11..Len(DecimalDigitSeq) : DecimalDigitSeq[i] = c
                 IN  zeros[(i - 1) \div 10] + ((i - 1) % 10)
            ELSE (CHOOSE p \in others : p[1] = c)[2]
        hex(n, w) == [k \in 1..w |-> <<"0","1","2","3","4","5","6","7","8","9","a","b","c","d","e","f">>[((n \div (16 ^ (w - k))) % 16) + 1]]
        \* the character as the message writes it: \xNN, \uNNNN or
        \* \UNNNNNNNN
        char_escape(c) ==
            LET n == ord(c)
            IN  IF n < 256 THEN <<"\\","x">> \o hex(n, 2)
                ELSE IF n < 65536 THEN <<"\\","u">> \o hex(n, 4)
                ELSE <<"\\","U">> \o hex(n, 8)
    IN  <<"'">> \o (CASE out.encoding = "utf-8"  -> <<"u","t","f","-","8">>
                       [] out.encoding = "ascii"  -> <<"a","s","c","i","i">>
                       [] out.encoding = "cp1252" -> <<"c","h","a","r","m","a","p">>)
        \o <<"'"," ","c","o","d","e","c"," ","c","a","n","'","t"," ","e","n","c","o","d","e"," ">>
        \o (IF end = start
            THEN <<"c","h","a","r","a","c","t","e","r"," ","'">> \o char_escape(text[start]) \o <<"'"," ","i","n"," ","p","o","s","i","t","i","o","n"," ">>
                 \o DigitsOfInt(start - 1)
            ELSE <<"c","h","a","r","a","c","t","e","r","s"," ","i","n"," ","p","o","s","i","t","i","o","n"," ">> \o DigitsOfInt(start - 1) \o <<"-">>
                 \o DigitsOfInt(end - 1))
        \o (CASE out.encoding = "utf-8"  -> <<":"," ","s","u","r","r","o","g","a","t","e","s"," ","n","o","t"," ","a","l","l","o","w","e","d">>
              [] out.encoding = "ascii"  -> <<":"," ","o","r","d","i","n","a","l"," ","n","o","t"," ","i","n"," ","r","a","n","g","e","(","1","2","8",")">>
              [] out.encoding = "cp1252" -> <<":"," ","c","h","a","r","a","c","t","e","r"," ","m","a","p","s"," ","t","o"," ","<","u","n","d","e","f","i","n","e","d",">">>)

\* the exception print(text) raises, NoException when it prints.  The
\* encoder hands each run of characters it cannot encode to the error
\* handler; surrogateescape fails on the first character of the run that
\* is not a lone surrogate, and the exception then names the run (the
\* charmap codec) or what is left of it from that character on (ascii).
print_raises(text, out) ==
    LET bad     == {i \in 1..Len(text) : ~ encodable(text[i], out)}
        failing == {i \in bad : ~ (out.errors = "surrogateescape"
                                     /\ text[i] = LoneSurrogate)}
        first   == SetMin(failing)
        start   == IF out.errors = "surrogateescape" /\ out.encoding = "ascii"
                   THEN first
                   ELSE SetMin({j \in 1..first : \A k \in j..first : k \in bad})
        end     == SetMax({j \in first..Len(text) : \A k \in first..j : k \in bad})
    IN  IF failing = {} THEN NoException
        ELSE [type    |-> "UnicodeEncodeError",
              message |-> encode_error_message(text, out, start, end)]

(***************************************************************************)
(* Entity Extractor: AIService.extract_entities                            *)
(***************************************************************************)
\* seeded fault: the cascade without its final else branch
query_type_without_else(query_lower) ==
    IF AnyIn(<< <<"r","e","c","o","m","m","e","n","d">>, <<"s","u","g","g","e","s","t">> >>, query_lower)
    THEN <<"r","e","c","o","m","m","e","n","d","a","t","i","o","n">>
    ELSE IF \/ Contains(query_lower, <<"m","i","s","s","i","n","g"," ","s","k","i","l","l">>)
            \/ Contains(query_lower, <<"s","k","i","l","l"," ","g","a","p">>)
            \/ (Contains(query_lower, <<"m","i","s","s","i","n","g">>) /\ Contains(query_lower, <<"s","k","i","l","l">>))
    THEN <<"g","a","p","_","a","n","a","l","y","s","i","s">>
    ELSE IF AnyIn(<< <<"q","u","a","l","i","f","y">>, <<"e","l","i","g","i","b","l","e">>, <<"m","a","t","c","h">> >>, query_lower)
    THEN <<"m","a","t","c","h","i","n","g">>
    ELSE IF AnyIn(<< <<"c","o","u","n","t">>, <<"a","v","e","r","a","g","e">>, <<"s","u","m">>, <<"h","o","w"," ","m","a","n","y">> >>, query_lower)
    THEN <<"a","g","g","r","e","g","a","t","i","o","n">>
    ELSE None

\* seeded fault: the cascade with the matching test moved before gap_analysis
query_type_matching_first(query_lower) ==
    IF AnyIn(<< <<"r","e","c","o","m","m","e","n","d">>, <<"s","u","g","g","e","s","t">> >>, query_lower)
    THEN <<"r","e","c","o","m","m","e","n","d","a","t","i","o","n">>
    ELSE IF AnyIn(<< <<"q","u","a","l","i","f","y">>, <<"e","l","i","g","i","b","l","e">>, <<"m","a","t","c","h">> >>, query_lower)
    THEN <<"m","a","t","c","h","i","n","g">>
    ELSE IF \/ Contains(query_lower, <<"m","i","s","s","i","n","g"," ","s","k","i","l","l">>)
            \/ Contains(query_lower, <<"s","k","i","l","l"," ","g","a","p">>)
            \/ (Contains(query_lower, <<"m","i","s","s","i","n","g">>) /\ Contains(query_lower, <<"s","k","i","l","l">>))
    THEN <<"g","a","p","_","a","n","a","l","y","s","i","s">>
    ELSE IF AnyIn(<< <<"c","o","u","n","t">>, <<"a","v","e","r","a","g","e">>, <<"s","u","m">>, <<"h","o","w"," ","m","a","n","y">> >>, query_lower)
    THEN <<"a","g","g","r","e","g","a","t","i","o","n">>
    ELSE <<"r","e","t","r","i","e","v","a","l">>

\* the if/elif cascade that sets entities['query_type']
query_type(query_lower) ==
    IF AnyIn(<< <<"r","e","c","o","m","m","e","n","d">>, <<"s","u","g","g","e","s","t">> >>, query_lower)
    THEN <<"r","e","c","o","m","m","e","n","d","a","t","i","o","n">>
    ELSE IF \/ Contains(query_lower, <<"m","i","s","s","i","n","g"," ","s","k","i","l","l">>)
            \/ Contains(query_lower, <<"s","k","i","l","l"," ","g","a","p">>)
            \/ (Contains(query_lower, <<"m","i","s","s","i","n","g">>) /\ Contains(query_lower, <<"s","k","i","l","l">>))
    THEN <<"g","a","p","_","a","n","a","l","y","s","i","s">>
    ELSE IF AnyIn(<< <<"q","u","a","l","i","f","y">>, <<"e","l","i","g","i","b","l","e">>, <<"m","a","t","c","h">> >>, query_lower)
    THEN <<"m","a","t","c","h","i","n","g">>
    ELSE IF AnyIn(<< <<"c","o","u","n","t">>, <<"a","v","e","r","a","g","e">>, <<"s","u","m">>, <<"h","o","w"," ","m","a","n","y">> >>, query_lower)
    THEN <<"a","g","g","r","e","g","a","t","i","o","n">>
    ELSE <<"r","e","t","r","i","e","v","a","l">>

\* first index at or after i that is not whitespace (Len(s) + 1 if none)
SkipSpace(s, i) ==
    SetMin({k \in i..(Len(s) + 1) : k = Len(s) + 1 \/ s[k] \notin Whitespace})

\* last index of the run of lowercase letters that starts at i
LowerRunEnd(s, i) ==
    SetMin({k \in i..Len(s) : k = Len(s) \/ s[k + 1] \notin LowerChars})

\* every index at which  [A-Z][a-z]+(?:\s+[A-Z][a-z]+)*  can end when it starts at j
RECURSIVE NameEnds(_, _)
NameEnds(s, j) ==
    IF j + 1 <= Len(s) /\ s[j] \in UpperChars /\ s[j + 1] \in LowerChars
    THEN LET m == LowerRunEnd(s, j + 1)
             n == SkipSpace(s, m + 1)
         IN  ((j + 1)..m) \cup (IF n > m + 1 THEN NameEnds(s, n) ELSE {})
    ELSE {}

\* student_patterns: pre is the literal before the name (followed by \s+
\* when it is not empty); after the name come \s+ (when ws) and one of alts
student_patterns == <<
    [pre |-> <<"f","o","r">>,        ws |-> FALSE, alts |-> {<<>>}],
    [pre |-> <<"t","o">>,         ws |-> TRUE,  alts |-> {<<"t","o">>}],
    [pre |-> <<>>,           ws |-> FALSE, alts |-> {<<"'">>, <<"s">>}],
    [pre |-> <<"s","t","u","d","e","n","t">>,    ws |-> FALSE, alts |-> {<<>>}],
    [pre |-> <<"o","f">>,         ws |-> FALSE, alts |-> {<<>>}],
    [pre |-> <<"d","o","e","s">>,       ws |-> TRUE,  alts |-> {<<"h","a","v","e">>}],
    [pre |-> <<"s","k","i","l","l","s"," ","f","o","r">>, ws |-> FALSE, alts |-> {<<>>}] >>

\* the part of a pattern after the name matches at index p
SuffixAt(pat, s, p) ==
    LET q == IF pat.ws THEN SkipSpace(s, p) ELSE p
    IN  /\ (pat.ws => q > p)
        /\ \E a \in pat.alts : MatchAt(s, a, q)

\* the pattern matches with its first character at index i: <<j, k>> is the
\* span of group 1 (the longest name the backtracking matcher accepts),
\* <<>> when there is no match at i
PatternAt(pat, s, i) ==
    IF ~ (pat.pre = <<>> \/ MatchAt(s, pat.pre, i)) THEN <<>>
    ELSE LET a    == i + Len(pat.pre)
             j    == IF pat.pre = <<>> THEN a ELSE SkipSpace(s, a)
             ends == IF pat.pre # <<>> /\ j = a THEN {}
                     ELSE {k \in NameEnds(s, j) : SuffixAt(pat, s, k + 1)}
         IN  IF ends = {} THEN <<>> ELSE <<j, SetMax(ends)>>

\* re.search(pattern, query): group(1) of the leftmost match, None if none
re_search_name(pat, s) ==
    LET starts == {i \in 1..Len(s) : PatternAt(pat, s, i) # <<>>}
    IN  IF starts = {} THEN None
        ELSE LET g == PatternAt(pat, s, SetMin(starts))
             IN  SubSeq(s, g[1], g[2])

\* seeded fault: the pattern whose match starts leftmost in the utterance wins
student_name_leftmost_match(query) ==
    LET hits == {p \in 1..Len(student_patterns) :
                    re_search_name(student_patterns[p], query) # None}
        at(p) == SetMin({i \in 1..Len(query) :
                            PatternAt(student_patterns[p], query, i) # <<>>})
    IN  IF hits = {} THEN None
        ELSE Lower(re_search_name(
                 student_patterns[SetMin({p \in hits : \A r \in hits : at(p) <= at(r)})],
                 query))

\* the loop over student_patterns: the first pattern that matches wins
student_name(query) ==
    LET hits == {p \in 1..Len(student_patterns) :
                    re_search_name(student_patterns[p], query) # None}
    IN  IF hits = {} THEN None
        ELSE Lower(re_search_name(student_patterns[SetMin(hits)], query))

companies == << <<"g","o","o","g","l","e">>, <<"a","m","a","z","o","n">>, <<"m","i","c","r","o","s","o","f","t">>, <<"m","e","t","a">>, <<"a","p","p","l","e">>,
                <<"n","e","t","f","l","i","x">>, <<"f","a","c","e","b","o","o","k">>, <<"i","b","m">>, <<"o","r","a","c","l","e">>, <<"s","a","l","e","s","f","o","r","c","e">>,
                <<"t","e","s","l","a">>, <<"u","b","e","r">> >>

\* seeded fault: the entry that occurs first in the utterance is taken
FirstIn_by_utterance_position(names, query_lower) ==
    LET hits == {i \in 1..Len(names) : Contains(query_lower, names[i])}
        at(i) == SetMin({k \in 1..Len(query_lower) : MatchAt(query_lower, names[i], k)})
    IN  IF hits = {} THEN None
        ELSE names[SetMin({i \in hits : \A j \in hits : at(i) <= at(j)})]

\* for x in names: if x in query_lower: take it and break
FirstIn(names, query_lower) ==
    LET hits == {i \in 1..Len(names) : Contains(query_lower, names[i])}
    IN  IF hits = {} THEN None ELSE names[SetMin(hits)]

\* the roles dict, in insertion order
roles == <<
    [key |-> <<"s","o","f","t","w","a","r","e">>,
     keywords |-> << <<"s","o","f","t","w","a","r","e">>, <<"e","n","g","i","n","e","e","r">>, <<"d","e","v","e","l","o","p","e","r">>, <<"s","w","e">>,
                     <<"b","a","c","k","e","n","d">>, <<"f","r","o","n","t","e","n","d">>, <<"f","u","l","l"," ","s","t","a","c","k">> >>],
    [key |-> <<"m","l">>,
     keywords |-> << <<"m","l">>, <<"m","a","c","h","i","n","e"," ","l","e","a","r","n","i","n","g">>, <<"a","i">>,
                     <<"a","r","t","i","f","i","c","i","a","l"," ","i","n","t","e","l","l","i","g","e","n","c","e">> >>],
    [key |-> <<"d","a","t","a">>,
     keywords |-> << <<"d","a","t","a"," ","s","c","i","e","n","t","i","s","t">>, <<"d","a","t","a"," ","a","n","a","l","y","s","t">>, <<"d","a","t","a"," ","e","n","g","i","n","e","e","r">> >>],
    [key |-> <<"c","l","o","u","d">>,
     keywords |-> << <<"c","l","o","u","d">>, <<"d","e","v","o","p","s">>, <<"i","n","f","r","a","s","t","r","u","c","t","u","r","e">> >>] >>

\* the loop over roles.items(): the first category with a keyword hit wins
role_keywords(categories, query_lower) ==
    LET hits == {i \in 1..Len(categories) : AnyIn(categories[i].keywords, query_lower)}
    IN  IF hits = {} THEN None ELSE categories[SetMin(hits)].key

common_skills == << <<"p","y","t","h","o","n">>, <<"j","a","v","a">>, <<"j","a","v","a","s","c","r","i","p","t">>, <<"r","e","a","c","t">>, <<"s","q","l">>,
                    <<"m","a","c","h","i","n","e"," ","l","e","a","r","n","i","n","g">>, <<"d","e","e","p"," ","l","e","a","r","n","i","n","g">>, <<"a","w","s">>,
                    <<"d","o","c","k","e","r">>, <<"k","u","b","e","r","n","e","t","e","s">>, <<"n","o","d","e">>, <<"a","n","g","u","l","a","r">>, <<"v","u","e">>,
                    <<"d","j","a","n","g","o">>, <<"f","l","a","s","k">>, <<"s","p","r","i","n","g">>, <<"c","+","+">>, <<"c","#">>, <<"r","u","b","y">> >>

\* seeded fault: 'below' is accepted as a threshold trigger as well
threshold_triggers_with_below == << <<">">>, <<"a","b","o","v","e">>, <<"g","r","e","a","t","e","r"," ","t","h","a","n">>, <<"m","o","r","e"," ","t","h","a","n">>,
                                    <<"b","e","l","o","w">> >>

threshold_triggers == << <<">">>, <<"a","b","o","v","e">>, <<"g","r","e","a","t","e","r"," ","t","h","a","n">>, <<"m","o","r","e"," ","t","h","a","n">> >>

\* last index of  \d+(?:\.\d+)?  when it starts at i (0 if s[i] is no digit)
NumberEnd(s, i) ==
    IF i > Len(s) \/ s[i] \notin DigitChars THEN 0
    ELSE LET d == SetMin({k \in i..Len(s) : k = Len(s) \/ s[k + 1] \notin DigitChars})
         IN  IF d + 2 <= Len(s) /\ s[d + 1] = "." /\ s[d + 2] \in DigitChars
             THEN SetMin({k \in (d + 2)..Len(s) :
                             k = Len(s) \/ s[k + 1] \notin DigitChars})
             ELSE d

\* the regex (?:>|above|greater than|more than)\s*(\d+(?:\.\d+)?) matches
\* with its first character at index i: the span of group 1, else <<>>
ThresholdAt(s, i) ==
    LET alts == {t \in 1..Len(threshold_triggers) : MatchAt(s, threshold_triggers[t], i)}
        good == {t \in alts :
                    NumberEnd(s, SkipSpace(s, i + Len(threshold_triggers[t]))) > 0}
    IN  IF good = {} THEN <<>>
        ELSE LET j == SkipSpace(s, i + Len(threshold_triggers[SetMin(good)]))
             IN  <<j, NumberEnd(s, j)>>

\* seeded fault: the last occurrence of a threshold phrase is taken
threshold_last_match(query_lower) ==
    LET starts == {i \in 1..Len(query_lower) : ThresholdAt(query_lower, i) # <<>>}
    IN  IF starts = {} THEN None
        ELSE LET g == ThresholdAt(query_lower, SetMax(starts))
             IN  float(SubSeq(query_lower, g[1], g[2]))

\* re.search of the threshold regex and float(group(1)); None if no match
threshold(query_lower) ==
    LET starts == {i \in 1..Len(query_lower) : ThresholdAt(query_lower, i) # <<>>}
    IN  IF starts = {} THEN None
        ELSE LET g == ThresholdAt(query_lower, SetMin(starts))
             IN  float(SubSeq(query_lower, g[1], g[2]))

\* the dict display that opens extract_entities
entities_display ==
    [student_name  |-> None,
     company       |-> None,
     role_keywords |-> None,
     skill         |-> None,
     course        |-> None,
     threshold     |-> None,
     query_type    |-> None]

\* the keyword tables of extract_entities: the displays companies, roles and
\* common_skills of its body, each a new object in each call
Tables ==
    [companies |-> companies, roles |-> roles, common_skills |-> common_skills]

\* entities[key] = value under the test that guards it in extract_entities:
\* the item is assigned when the cascade, the loop or the regex has a hit
\* (None stands for no hit), and the dict is left as it is otherwise
item_assigned(entities, key, value) ==
    IF value = None THEN entities ELSE [entities EXCEPT ![key] = value]

\* the statements of extract_entities after the displays, in their order, on
\* the dict and the tables they built: the query type (assigned in every
\* branch of the cascade), the student name, the company, the role, the
\* skill and the threshold; the loops read the tables; the dict is returned
extract_entities_body(entities, tables, query) ==
    LET query_lower == Lower(query)
        typed     == item_assigned(entities, "query_type", query_type(query_lower))
        named     == item_assigned(typed, "student_name", student_name(query))
        employed  == item_assigned(named, "company", FirstIn(tables.companies, query_lower))
        roled     == item_assigned(employed, "role_keywords", role_keywords(tables.roles, query_lower))
        skilled   == item_assigned(roled, "skill", FirstIn(tables.common_skills, query_lower))
    IN  item_assigned(skilled, "threshold", threshold(query_lower))

extract_entities(query) == extract_entities_body(entities_display, Tables, query)

(***************************************************************************)
(* Template Query Synthesizer: AIService.intelligent_fallback              *)
(***************************************************************************)
\* seeded fault: the field is taken out of the dict when it is read, as
\* entities.pop(key, default) does
entities_pop(entities, key, default) ==
    [value |-> IF key \in DOMAIN entities THEN entities[key] ELSE default,
     dict  |-> [k \in DOMAIN entities \ {key} |-> entities[k]]]

\* entities.get(key, default): the value returned, and the dict after the
\* call (dict.get neither removes the key nor inserts the default)
entities_get(entities, key, default) ==
    [value |-> IF key \in DOMAIN entities THEN entities[key] ELSE default,
     dict  |-> entities]

\* the six entities.get calls at the head of intelligent_fallback, each on
\* the dict as the call before left it: the values bound to the locals, and
\* the dict when the last call returned
intelligent_fallback_locals(entities) ==
    LET query_type_   == entities_get(entities, "query_type", None)
        student       == entities_get(query_type_.dict, "student_name", None)
        company       == entities_get(student.dict, "company", None)
        role          == entities_get(company.dict, "role_keywords", None)
        skill         == entities_get(role.dict, "skill", None)
        threshold_    == entities_get(skill.dict, "threshold", <<"int", 8>>)
    IN  [query_type |-> query_type_.value,
         student    |-> student.value,
         company    |-> company.value,
         role       |-> role.value,
         skill      |-> skill.value,
         threshold  |-> threshold_.value,
         entities   |-> threshold_.dict]

eligibility_template(company) ==
    "MATCH (i:Internship)\n"
    \o "WHERE toLower(i.company) CONTAINS '" \o Str(company) \o "'\n"
    \o "MATCH (i)-[r:REQUIRES]->(req_skill:Skill)\n"
    \o "WITH i, collect({skill: req_skill, min_level: r.min_proficiency}) as requirements\n"
    \o "MATCH (s:Student)\n"
    \o "OPTIONAL MATCH (s)-[has:HAS_SKILL]->(skill:Skill)\n"
    \o "WITH s, i, requirements, collect({skill: skill, level: has.proficiency}) as student_skills\n"
    \o "WITH s, i, requirements, student_skills, [req IN requirements WHERE any(ss IN student_skills WHERE ss.skill = req.skill AND ss.level >= req.min_level)] as met_requirements\n"
    \o "WITH s, i, size(met_requirements) * 100.0 / size(requirements) as match_percent\n"
    \o "WHERE match_percent >= 70\n"
    \o "RETURN s.id AS Student_ID, s.name AS Name, s.major AS Major, s.gpa AS GPA, i.company AS Company, i.role AS Role, round(match_percent, 1) AS Match_Percent\n"
    \o "ORDER BY Match_Percent DESC, s.gpa DESC\n"
    \o "LIMIT 20"

internship_template(student) ==
    "MATCH (s:Student)-[has:HAS_SKILL]->(skill:Skill)\n"
    \o "WHERE toLower(s.name) CONTAINS '" \o Str(student) \o "'\n"
    \o "WITH s, collect({skill: skill, level: has.proficiency}) as student_skills\n"
    \o "MATCH (i:Internship)-[r:REQUIRES]->(req_skill:Skill)\n"
    \o "WITH s, i, student_skills, collect({skill: req_skill, min_level: r.min_proficiency}) as requirements\n"
    \o "WITH s, i, requirements, student_skills, [req IN requirements WHERE any(ss IN student_skills WHERE ss.skill = req.skill AND ss.level >= req.min_level)] as met_requirements\n"
    \o "WITH i, size(met_requirements) * 100.0 / size(requirements) as match_percent\n"
    \o "WHERE match_percent >= 40\n"
    \o "RETURN i.company AS Company, i.role AS Role, i.location AS Location, round(match_percent, 1) AS Match_Percent\n"
    \o "ORDER BY Match_Percent DESC\n"
    \o "LIMIT 10"

\* seeded fault: the clause is emitted whether or not a role was extracted
role_filter_unconditional(role) ==
    "AND toLower(i.role) CONTAINS '" \o Str(role) \o "'"

\* role_filter = f"AND toLower(i.role) CONTAINS '{role}'" if role else ""
role_filter(role) ==
    IF Truthy(role) THEN "AND toLower(i.role) CONTAINS '" \o Str(role) \o "'" ELSE ""

course_template(student, company, role) ==
    "MATCH (s:Student)\n"
    \o "WHERE toLower(s.name) CONTAINS '" \o Str(student) \o "'\n"
    \o "MATCH (i:Internship)\n"
    \o "WHERE toLower(i.company) CONTAINS '" \o Str(company) \o "' " \o role_filter(role) \o "\n"
    \o "MATCH (i)-[r:REQUIRES]->(needed:Skill)\n"
    \o "OPTIONAL MATCH (s)-[has:HAS_SKILL]->(needed)\n"
    \o "WHERE has IS NULL OR has.proficiency < r.min_proficiency\n"
    \o "WITH s, needed, r.min_proficiency as required_level, COALESCE(has.proficiency, 0) as current_level\n"
    \o "MATCH (c:Course)-[:TEACHES]->(needed)\n"
    \o "WHERE NOT (s)-[:COMPLETED]->(c) AND NOT (s)-[:ENROLLED_IN]->(c)\n"
    \o "WITH c, collect(DISTINCT needed.name) as skills_taught, avg(required_level - current_level) as avg_gap\n"
    \o "RETURN DISTINCT c.name AS Course, c.code AS Code, c.credits AS Credits, skills_taught AS Skills_Taught, round(avg_gap, 1) AS Skill_Gap_Filled\n"
    \o "ORDER BY Skill_Gap_Filled DESC\n"
    \o "LIMIT 10"

gap_template(student, company, role) ==
    "MATCH (s:Student)\n"
    \o "WHERE toLower(s.name) CONTAINS '" \o Str(student) \o "'\n"
    \o "MATCH (i:Internship)\n"
    \o "WHERE toLower(i.company) CONTAINS '" \o Str(company) \o "' " \o role_filter(role) \o "\n"
    \o "MATCH (i)-[r:REQUIRES]->(skill:Skill)\n"
    \o "OPTIONAL MATCH (s)-[has:HAS_SKILL]->(skill)\n"
    \o "WITH skill, r.min_proficiency as required, COALESCE(has.proficiency, 0) as current\n"
    \o "WHERE current < required\n"
    \o "RETURN skill.name AS Skill, skill.category AS Category, required AS Required_Level, current AS Current_Level, (required - current) AS Gap, CASE WHEN current = 0 THEN 'Missing' WHEN current < required THEN 'Weak' ELSE 'Sufficient' END AS Status\n"
    \o "ORDER BY Gap DESC"

skill_threshold_template(skill, thr) ==
    "MATCH (s:Student)-[has:HAS_SKILL]->(sk:Skill)\n"
    \o "WHERE toLower(sk.name) CONTAINS '" \o Str(skill) \o "' AND has.proficiency > " \o Str(FormatNumber(thr)) \o "\n"
    \o "RETURN s.id AS ID, s.name AS Name, s.major AS Major, s.gpa AS GPA, has.proficiency AS Proficiency\n"
    \o "ORDER BY has.proficiency DESC\n"
    \o "LIMIT 20"

skill_template(skill) ==
    "MATCH (s:Student)-[has:HAS_SKILL]->(sk:Skill)\n"
    \o "WHERE toLower(sk.name) CONTAINS '" \o Str(skill) \o "'\n"
    \o "RETURN s.id AS ID, s.name AS Name, s.major AS Major, s.gpa AS GPA, has.proficiency AS Proficiency\n"
    \o "ORDER BY has.proficiency DESC\n"
    \o "LIMIT 20"

student_skills_template(student) ==
    "MATCH (s:Student)-[has:HAS_SKILL]->(sk:Skill)\n"
    \o "WHERE toLower(s.name) CONTAINS '" \o Str(student) \o "'\n"
    \o "RETURN sk.name AS Skill, sk.category AS Category, has.proficiency AS Proficiency\n"
    \o "ORDER BY has.proficiency DESC"

skill_courses_template(skill) ==
    "MATCH (c:Course)-[:TEACHES]->(sk:Skill)\n"
    \o "WHERE toLower(sk.name) CONTAINS '" \o Str(skill) \o "'\n"
    \o "RETURN c.name AS Course, c.code AS Code, c.credits AS Credits, c.difficulty AS Difficulty\n"
    \o "ORDER BY c.name\n"
    \o "LIMIT 20"

count_by_major_template ==
    "MATCH (s:Student)\n"
    \o "RETURN s.major AS Major, count(s) AS Student_Count\n"
    \o "ORDER BY Student_Count DESC"

average_gpa_template ==
    "MATCH (s:Student)\n"
    \o "RETURN s.major AS Major, round(avg(s.gpa), 2) AS Average_GPA, count(s) AS Students\n"
    \o "ORDER BY Average_GPA DESC"

default_template ==
    "MATCH (s:Student)\n"
    \o "RETURN s.id AS ID, s.name AS Name, s.major AS Major, s.year AS Year, s.gpa AS GPA\n"
    \o "ORDER BY s.name\n"
    \o "LIMIT 20"

\* seeded fault: the skill-proficiency branch tested before the eligibility branch
intelligent_fallback_skill_first(query, entities) ==
    LET q       == Lower(query)
        locals  == intelligent_fallback_locals(entities)
        qtype   == locals.query_type
        student == locals.student
        company == locals.company
        role    == locals.role
        skill   == locals.skill
        thr     == locals.threshold
    IN  IF Truthy(skill) /\ Contains(q, <<"s","t","u","d","e","n","t">>)
        THEN IF TruthyNumber(thr)
             THEN skill_threshold_template(skill, thr)
             ELSE skill_template(skill)
        ELSE IF qtype = <<"m","a","t","c","h","i","n","g">> /\ Contains(q, <<"s","t","u","d","e","n","t">>) /\ Truthy(company)
        THEN eligibility_template(company)
        ELSE IF qtype = <<"r","e","c","o","m","m","e","n","d","a","t","i","o","n">> /\ Contains(q, <<"i","n","t","e","r","n","s","h","i","p">>) /\ Truthy(student)
        THEN internship_template(student)
        ELSE IF qtype = <<"r","e","c","o","m","m","e","n","d","a","t","i","o","n">> /\ Contains(q, <<"c","o","u","r","s","e">>)
                /\ Truthy(student) /\ Truthy(company)
        THEN course_template(student, company, role)
        ELSE IF qtype = <<"g","a","p","_","a","n","a","l","y","s","i","s">> /\ Truthy(student) /\ Truthy(company)
        THEN gap_template(student, company, role)
        ELSE IF Truthy(student) /\ Contains(q, <<"s","k","i","l","l">>)
        THEN student_skills_template(student)
        ELSE IF Truthy(skill) /\ Contains(q, <<"c","o","u","r","s","e">>)
        THEN skill_courses_template(skill)
        ELSE IF qtype = <<"a","g","g","r","e","g","a","t","i","o","n">> /\ Contains(q, <<"m","a","j","o","r">>)
        THEN count_by_major_template
        ELSE IF qtype = <<"a","g","g","r","e","g","a","t","i","o","n">> /\ Contains(q, <<"g","p","a">>)
        THEN average_gpa_template
        ELSE default_template

\* seeded fault: the count-by-major branch without its test for 'major'
intelligent_fallback_major_unchecked(query, entities) ==
    LET q       == Lower(query)
        locals  == intelligent_fallback_locals(entities)
        qtype   == locals.query_type
        student == locals.student
        company == locals.company
        role    == locals.role
        skill   == locals.skill
        thr     == locals.threshold
    IN  IF qtype = <<"m","a","t","c","h","i","n","g">> /\ Contains(q, <<"s","t","u","d","e","n","t">>) /\ Truthy(company)
        THEN eligibility_template(company)
        ELSE IF qtype = <<"r","e","c","o","m","m","e","n","d","a","t","i","o","n">> /\ Contains(q, <<"i","n","t","e","r","n","s","h","i","p">>) /\ Truthy(student)
        THEN internship_template(student)
        ELSE IF qtype = <<"r","e","c","o","m","m","e","n","d","a","t","i","o","n">> /\ Contains(q, <<"c","o","u","r","s","e">>)
                /\ Truthy(student) /\ Truthy(company)
        THEN course_template(student, company, role)
        ELSE IF qtype = <<"g","a","p","_","a","n","a","l","y","s","i","s">> /\ Truthy(student) /\ Truthy(company)
        THEN gap_template(student, company, role)
        ELSE IF Truthy(skill) /\ Contains(q, <<"s","t","u","d","e","n","t">>)
        THEN IF TruthyNumber(thr)
             THEN skill_threshold_template(skill, thr)
             ELSE skill_template(skill)
        ELSE IF Truthy(student) /\ Contains(q, <<"s","k","i","l","l">>)
        THEN student_skills_template(student)
        ELSE IF Truthy(skill) /\ Contains(q, <<"c","o","u","r","s","e">>)
        THEN skill_courses_template(skill)
        ELSE IF qtype = <<"a","g","g","r","e","g","a","t","i","o","n">>
        THEN count_by_major_template
        ELSE IF qtype = <<"a","g","g","r","e","g","a","t","i","o","n">> /\ Contains(q, <<"g","p","a">>)
        THEN average_gpa_template
        ELSE default_template

\* seeded fault: the course branch is tested before the internship branch
intelligent_fallback_course_first(query, entities) ==
    LET q       == Lower(query)
        locals  == intelligent_fallback_locals(entities)
        qtype   == locals.query_type
        student == locals.student
        company == locals.company
        role    == locals.role
        skill   == locals.skill
        thr     == locals.threshold
    IN  IF qtype = <<"m","a","t","c","h","i","n","g">> /\ Contains(q, <<"s","t","u","d","e","n","t">>) /\ Truthy(company)
        THEN eligibility_template(company)
        ELSE IF qtype = <<"r","e","c","o","m","m","e","n","d","a","t","i","o","n">> /\ Contains(q, <<"c","o","u","r","s","e">>)
                /\ Truthy(student) /\ Truthy(company)
        THEN course_template(student, company, role)
        ELSE IF qtype = <<"r","e","c","o","m","m","e","n","d","a","t","i","o","n">> /\ Contains(q, <<"i","n","t","e","r","n","s","h","i","p">>) /\ Truthy(student)
        THEN internship_template(student)
        ELSE IF qtype = <<"g","a","p","_","a","n","a","l","y","s","i","s">> /\ Truthy(student) /\ Truthy(company)
        THEN gap_template(student, company, role)
        ELSE IF Truthy(skill) /\ Contains(q, <<"s","t","u","d","e","n","t">>)
        THEN IF TruthyNumber(thr)
             THEN skill_threshold_template(skill, thr)
             ELSE skill_template(skill)
        ELSE IF Truthy(student) /\ Contains(q, <<"s","k","i","l","l">>)
        THEN student_skills_template(student)
        ELSE IF Truthy(skill) /\ Contains(q, <<"c","o","u","r","s","e">>)
        THEN skill_courses_template(skill)
        ELSE IF qtype = <<"a","g","g","r","e","g","a","t","i","o","n">> /\ Contains(q, <<"m","a","j","o","r">>)
        THEN count_by_major_template
        ELSE IF qtype = <<"a","g","g","r","e","g","a","t","i","o","n">> /\ Contains(q, <<"g","p","a">>)
        THEN average_gpa_template
        ELSE default_template

\* seeded fault: the average-GPA branch is tested before the count-by-major branch
intelligent_fallback_gpa_first(query, entities) ==
    LET q       == Lower(query)
        locals  == intelligent_fallback_locals(entities)
        qtype   == locals.query_type
        student == locals.student
        company == locals.company
        role    == locals.role
        skill   == locals.skill
        thr     == locals.threshold
    IN  IF qtype = <<"m","a","t","c","h","i","n","g">> /\ Contains(q, <<"s","t","u","d","e","n","t">>) /\ Truthy(company)
        THEN eligibility_template(company)
        ELSE IF qtype = <<"r","e","c","o","m","m","e","n","d","a","t","i","o","n">> /\ Contains(q, <<"i","n","t","e","r","n","s","h","i","p">>) /\ Truthy(student)
        THEN internship_template(student)
        ELSE IF qtype = <<"r","e","c","o","m","m","e","n","d","a","t","i","o","n">> /\ Contains(q, <<"c","o","u","r","s","e">>)
                /\ Truthy(student) /\ Truthy(company)
        THEN course_template(student, company, role)
        ELSE IF qtype = <<"g","a","p","_","a","n","a","l","y","s","i","s">> /\ Truthy(student) /\ Truthy(company)
        THEN gap_template(student, company, role)
        ELSE IF Truthy(skill) /\ Contains(q, <<"s","t","u","d","e","n","t">>)
        THEN IF TruthyNumber(thr)
             THEN skill_threshold_template(skill, thr)
             ELSE skill_template(skill)
        ELSE IF Truthy(student) /\ Contains(q, <<"s","k","i","l","l">>)
        THEN student_skills_template(student)
        ELSE IF Truthy(skill) /\ Contains(q, <<"c","o","u","r","s","e">>)
        THEN skill_courses_template(skill)
        ELSE IF qtype = <<"a","g","g","r","e","g","a","t","i","o","n">> /\ Contains(q, <<"g","p","a">>)
        THEN average_gpa_template
        ELSE IF qtype = <<"a","g","g","r","e","g","a","t","i","o","n">> /\ Contains(q, <<"m","a","j","o","r">>)
        THEN count_by_major_template
        ELSE default_template

intelligent_fallback(query, entities) ==
    LET q       == Lower(query)
        locals  == intelligent_fallback_locals(entities)
        qtype   == locals.query_type
        student == locals.student
        company == locals.company
        role    == locals.role
        skill   == locals.skill
        thr     == locals.threshold
    IN  IF qtype = <<"m","a","t","c","h","i","n","g">> /\ Contains(q, <<"s","t","u","d","e","n","t">>) /\ Truthy(company)
        THEN eligibility_template(company)
        ELSE IF qtype = <<"r","e","c","o","m","m","e","n","d","a","t","i","o","n">> /\ Contains(q, <<"i","n","t","e","r","n","s","h","i","p">>) /\ Truthy(student)
        THEN internship_template(student)
        ELSE IF qtype = <<"r","e","c","o","m","m","e","n","d","a","t","i","o","n">> /\ Contains(q, <<"c","o","u","r","s","e">>)
                /\ Truthy(student) /\ Truthy(company)
        THEN course_template(student, company, role)
        ELSE IF qtype = <<"g","a","p","_","a","n","a","l","y","s","i","s">> /\ Truthy(student) /\ Truthy(company)
        THEN gap_template(student, company, role)
        ELSE IF Truthy(skill) /\ Contains(q, <<"s","t","u","d","e","n","t">>)
        THEN IF TruthyNumber(thr)
             THEN skill_threshold_template(skill, thr)
             ELSE skill_template(skill)
        ELSE IF Truthy(student) /\ Contains(q, <<"s","k","i","l","l">>)
        THEN student_skills_template(student)
        ELSE IF Truthy(skill) /\ Contains(q, <<"c","o","u","r","s","e">>)
        THEN skill_courses_template(skill)
        ELSE IF qtype = <<"a","g","g","r","e","g","a","t","i","o","n">> /\ Contains(q, <<"m","a","j","o","r">>)
        THEN count_by_major_template
        ELSE IF qtype = <<"a","g","g","r","e","g","a","t","i","o","n">> /\ Contains(q, <<"g","p","a">>)
        THEN average_gpa_template
        ELSE default_template

(***************************************************************************)
(* Response Sanitizer: _fix_cypher_scoping and _clean_cypher_response      *)
(***************************************************************************)
\* seeded fault: the avg_gap rewrite no longer requires the alias
_fix_cypher_scoping_alias_unchecked(cypher) ==
    LET c1 == IF Contains(cypher, <<"O","R","D","E","R"," ","B","Y"," ","a","v","g","_","g","a","p">>)
              THEN Replace(cypher, <<"O","R","D","E","R"," ","B","Y"," ","a","v","g","_","g","a","p">>, <<"O","R","D","E","R"," ","B","Y"," ","S","k","i","l","l","_","G","a","p","_","F","i","l","l","e","d">>)
              ELSE cypher
    IN  IF Contains(c1, <<"O","R","D","E","R"," ","B","Y"," ","m","a","t","c","h","_","p","e","r","c","e","n","t">>)
           /\ Contains(c1, <<"a","s"," ","M","a","t","c","h","_","P","e","r","c","e","n","t">>)
        THEN Replace(c1, <<"O","R","D","E","R"," ","B","Y"," ","m","a","t","c","h","_","p","e","r","c","e","n","t">>, <<"O","R","D","E","R"," ","B","Y"," ","M","a","t","c","h","_","P","e","r","c","e","n","t">>)
        ELSE c1

_fix_cypher_scoping(cypher) ==
    LET c1 == IF Contains(cypher, <<"O","R","D","E","R"," ","B","Y"," ","a","v","g","_","g","a","p">>)
                 /\ Contains(cypher, <<"a","s"," ","S","k","i","l","l","_","G","a","p","_","F","i","l","l","e","d">>)
              THEN Replace(cypher, <<"O","R","D","E","R"," ","B","Y"," ","a","v","g","_","g","a","p">>, <<"O","R","D","E","R"," ","B","Y"," ","S","k","i","l","l","_","G","a","p","_","F","i","l","l","e","d">>)
              ELSE cypher
    IN  IF Contains(c1, <<"O","R","D","E","R"," ","B","Y"," ","m","a","t","c","h","_","p","e","r","c","e","n","t">>)
           /\ Contains(c1, <<"a","s"," ","M","a","t","c","h","_","P","e","r","c","e","n","t">>)
        THEN Replace(c1, <<"O","R","D","E","R"," ","B","Y"," ","m","a","t","c","h","_","p","e","r","c","e","n","t">>, <<"O","R","D","E","R"," ","B","Y"," ","M","a","t","c","h","_","P","e","r","c","e","n","t">>)
        ELSE c1

explanation_markers == << <<"e","x","p","l","a","n","a","t","i","o","n",":">>, <<"n","o","t","e",":">>, <<"t","h","i","s"," ","q","u","e","r","y">>, <<"t","h","e"," ","q","u","e","r","y">>,
                          <<"h","e","r","e","'","s">>, <<"i","'","v","e">>, <<"y","o","u"," ","c","a","n">>, <<"*"," ","t","h","e">>, <<"*"," ",Backtick>>,
                          <<"h","o","w","e","v","e","r",",">> >>

\* seeded fault: a marker line is skipped (continue) instead of ending the loop
RECURSIVE CleanLines_marker_continue(_, _, _)
CleanLines_marker_continue(lines, i, cypher_lines) ==
    IF i > Len(lines) THEN cypher_lines
    ELSE LET line == Strip(lines[i])
         IN  IF AnyIn(explanation_markers, Lower(line))
                  THEN CleanLines_marker_continue(lines, i + 1, cypher_lines)
             ELSE IF cypher_lines = <<>> /\ line = <<>>
                  THEN CleanLines_marker_continue(lines, i + 1, cypher_lines)
             ELSE IF line # <<>> /\ ~ StartsWith(line, <<"/","/">>)
                  THEN CleanLines_marker_continue(lines, i + 1, Append(cypher_lines, line))
             ELSE CleanLines_marker_continue(lines, i + 1, cypher_lines)

\* the for loop over lines: cypher_lines after the lines from index i on
RECURSIVE CleanLines(_, _, _)
CleanLines(lines, i, cypher_lines) ==
    IF i > Len(lines) THEN cypher_lines
    ELSE LET line == Strip(lines[i])
         IN  IF AnyIn(explanation_markers, Lower(line)) THEN cypher_lines
             ELSE IF cypher_lines = <<>> /\ line = <<>>
                  THEN CleanLines(lines, i + 1, cypher_lines)
             ELSE IF line # <<>> /\ ~ StartsWith(line, <<"/","/">>)
                  THEN CleanLines(lines, i + 1, Append(cypher_lines, line))
             ELSE CleanLines(lines, i + 1, cypher_lines)

_clean_cypher_response(response) ==
    LET r      == Strip(Replace(Replace(response, <<Backtick,Backtick,Backtick,"c","y","p","h","e","r">>, <<>>), <<Backtick,Backtick,Backtick>>, <<>>))
        lines  == Split(r, "\n")
        joined == Strip(Join(CleanLines(lines, 1, <<>>), <<"\n">>))
        cypher == Strip(RStrip(joined, {";"}))
    IN  _fix_cypher_scoping(cypher)

(***************************************************************************)
(* RecommendationEngine and the endpoints of app.py                        *)
(***************************************************************************)
\* the recommender before app.py's lifespan constructed it
NoEngine == [driver |-> "unbound"]

\* str(e) of the exceptions the collaborators raise (the database driver,
\* the AI backend): a plain message, and one with a character that UTF-8
\* cannot encode
ErrorMessages == {<<"C","o","n","n","e","c","t","i","o","n"," ","r","e","f","u","s","e","d">>, <<"'", LoneSurrogate, "'">>}

\* what the look at st.secrets in the two constructors does: it passes
\* (the secrets hold NEO4J_URI or they do not), or the import of streamlit
\* or the access to the secrets raises
SecretsOutcomes ==
    {[fails |-> FALSE, message |-> <<>>, neo4j |-> b] : b \in BOOLEAN}
        \cup {[fails |-> TRUE, message |-> <<"N","o"," ","s","e","c","r","e","t","s"," ","f","o","u","n","d">>, neo4j |-> FALSE]}

\* what the connection test of RecommendationEngine.__init__ does: it
\* passes, or GraphDatabase.driver / session.run raises
ConnectionOutcomes ==
    {[fails |-> FALSE, message |-> <<>>]}
        \cup {[fails |-> TRUE, message |-> m] : m \in ErrorMessages}

\* RecommendationEngine() with the configuration taken from the secrets
\* or else from the environment: the engine, or the exception that leaves
\* the constructor.  self.driver is the driver, or None when the
\* connection test failed; the print calls outside the try blocks and in
\* their handlers are not guarded.
RecommendationEngine(secrets, conn, enc) ==
    LET from_secrets == print_raises(<<Pictograph.check>> \o <<" ","L","o","a","d","e","d"," ","N","e","o","4","j"," ","c","o","n","f","i","g"," ","f","r","o","m"," ","S","t","r","e","a","m","l","i","t"," ","s","e","c","r","e","t","s">>, enc)
        e         == IF secrets.fails THEN secrets.message ELSE from_secrets.message
        could_not == print_raises(Pictograph.warning \o <<" ","C","o","u","l","d"," ","n","o","t"," ","l","o","a","d"," ","f","r","o","m"," ","S","t","r","e","a","m","l","i","t"," ","s","e","c","r","e","t","s",":"," ">> \o e, enc)
        loaded    == print_raises(<<Pictograph.check>> \o <<" ","L","o","a","d","e","d"," ","N","e","o","4","j"," ","c","o","n","f","i","g"," ","f","r","o","m"," ","e","n","v","i","r","o","n","m","e","n","t">>, enc)
        connected == print_raises(<<Pictograph.check>> \o <<" ","C","o","n","n","e","c","t","e","d"," ","t","o"," ","N","e","o","4","j"," ","s","u","c","c","e","s","s","f","u","l","l","y","!">>, enc)
        failed    == print_raises(Pictograph.warning \o <<" ","C","o","u","l","d"," ","n","o","t"," ","c","o","n","n","e","c","t"," ","t","o"," ","N","e","o","4","j",":"," ">>
                                      \o conn.message, enc)
        limited   == print_raises(<<Pictograph.pushpin>> \o <<" ","A","p","p"," ","w","i","l","l"," ","r","u","n"," ","i","n"," ","l","i","m","i","t","e","d"," ","m","o","d","e"," ","w","i","t","h","o","u","t"," ","d","a","t","a","b","a","s","e">>, enc)
    IN  IF (secrets.fails \/ (secrets.neo4j /\ from_secrets # NoException))
           /\ could_not # NoException
        THEN could_not
        ELSE IF ~ secrets.neo4j /\ loaded # NoException THEN loaded
        ELSE IF ~ conn.fails /\ connected = NoException THEN [driver |-> "connected"]
        ELSE IF failed # NoException THEN failed
        ELSE IF limited # NoException THEN limited
        ELSE [driver |-> "None"]

\* the engines the constructor returns
Engines == {[driver |-> "connected"], [driver |-> "None"]}

\* no request has reached the database
NoOutcome == [fails |-> FALSE, rows |-> <<>>, message |-> <<>>]

\* largest number of records the database returns for a query
MaxRows == 2

\* values of a record's column, by the case of execute_query that converts
\* them: None, a plain scalar, a list, a Node or Relationship, anything else
RawValues == {
    [kind |-> "None",   value |-> ""],
    [kind |-> "scalar", value |-> "Missing"],
    [kind |-> "scalar", value |-> "Sufficient"],
    [kind |-> "Node",   value |-> "{name: Python}"],
    [kind |-> "other",  value |-> "2024-05-01"] }

\* a record of the result: its column 'status'
Records == {[status |-> v] : v \in RawValues}

RecordSeqs ==
    {[i \in 1..n |-> f[i]] : n \in 0..MaxRows, f \in [1..MaxRows -> Records]}

\* what the database does with a query: session() / run() / the iteration
\* raises, or the records are delivered
DbOutcomes ==
    {[fails |-> FALSE, rows |-> r, message |-> <<>>] : r \in RecordSeqs}
        \cup {[fails |-> TRUE, rows |-> r, message |-> m] :
                  r \in RecordSeqs, m \in ErrorMessages}

\* the if / elif chain over the type of a value
convert_value(v) ==
    CASE v.kind = "None"   -> v
      [] v.kind = "scalar" -> v
      [] v.kind = "list"   -> v
      [] v.kind = "Node"   -> [kind |-> "dict", value |-> v.value]
      [] OTHER             -> [kind |-> "scalar", value |-> v.value]

\* record_dict of one record
record_dict(record) == [key \in DOMAIN record |-> convert_value(record[key])]

\* an exception that leaves the function instead of a returned value
Raised(type, code) == [raised |-> type, status_code |-> code]

\* RecommendationEngine.execute_query: the dict it returns, or the exception
\* that leaves it.  The except clause prints error_msg before it returns; an
\* exception of that print call is raised inside the handler and leaves the
\* function.
execute_query(engine, outcome, enc) ==
    LET error_msg == <<"Q","u","e","r","y"," ","e","x","e","c","u","t","i","o","n"," ","f","a","i","l","e","d",":"," ">> \o outcome.message
    IN
    IF engine.driver = "None"
    THEN [success |-> FALSE,
          error   |-> <<"N","e","o","4","j"," ","d","a","t","a","b","a","s","e"," ","n","o","t"," ","c","o","n","n","e","c","t","e","d","."," ","P","l","e","a","s","e"," ","c","h","e","c","k"," ","c","o","n","n","e","c","t","i","o","n"," ","s","e","t","t","i","n","g","s",".">>,
          data    |-> <<>>,
          count   |-> 0]
    ELSE IF outcome.fails
    THEN IF print_raises(<<Pictograph.cross, " ">> \o error_msg, enc) # NoException
         THEN Raised("UnicodeEncodeError", 0)
         ELSE [success |-> FALSE,
               error   |-> error_msg,
               data    |-> <<>>,
               count   |-> 0]
    ELSE [success |-> TRUE,
          data    |-> [i \in 1..Len(outcome.rows) |-> record_dict(outcome.rows[i])],
          count   |-> Len(outcome.rows)]

\* RecommendationEngine.close: the engine afterwards, or the exception of
\* its print call
close(engine, enc) ==
    IF engine.driver = "connected"
    THEN IF print_raises(<<Pictograph.check>> \o <<" ","N","e","o","4","j"," ","c","o","n","n","e","c","t","i","o","n"," ","c","l","o","s","e","d">>, enc) # NoException
         THEN Raised("UnicodeEncodeError", 0)
         ELSE [driver |-> "closed"]
    ELSE engine

\* the GET routes of app.py that query the database
Endpoints == {"/api/courses", "/api/internships/{student_id}",
              "/api/student/{student_id}", "/api/skill-gap",
              "/api/students/search"}

\* the try block of an endpoint, given what the recommender returned: it
\* returns the body (status 200) or raises
try_block(route, res) ==
    IF "raised" \in DOMAIN res THEN res
    ELSE CASE route \in {"/api/query", "/api/courses", "/api/students/search"} ->
                  IF res.success THEN [status_code |-> 200]
                  ELSE Raised("HTTPException", 500)
           [] route = "/api/internships/{student_id}" ->
                  IF res.success THEN [status_code |-> 200]
                  ELSE Raised("HTTPException", 404)
           [] route = "/api/student/{student_id}" ->
                  IF res.success /\ res.data # <<>> THEN [status_code |-> 200]
                  ELSE Raised("HTTPException", 404)
           [] route = "/api/skill-gap" ->
                  IF res.success THEN [status_code |-> 200]
                  ELSE Raised("HTTPException", 404)

\* except Exception as e: raise HTTPException(status_code=500, detail=str(e));
\* HTTPException is a subclass of Exception, so the handler also catches the
\* HTTPException raised inside the try block
except_Exception(outcome) ==
    IF "raised" \in DOMAIN outcome
    THEN Raised("HTTPException", 500)
    ELSE outcome

\* the status of the response FastAPI sends for an endpoint
endpoint_status(route, res) == except_Exception(try_block(route, res)).status_code
(***************************************************************************)
(* The dashboard's natural-language page: streamlit_app.py,                *)
(* show_natural_query.  Streamlit runs the function from the top on every  *)
(* user action and again after every st.rerun(); st.session_state and the  *)
(* values of the keyed widgets outlive a run, a button reads True only in  *)
(* the run its click started.                                              *)
(***************************************************************************)

\* st.session_state before the page ran: neither key is set
NoSession == [k \in {} |-> None]

\* the first entry of query_options
query_placeholder == <<"-","-"," ","S","e","l","e","c","t"," ","a"," ","q","u","e","r","y"," ","t","o"," ","s","e","e"," ","i","n","s","t","a","n","t"," ","r","e","s","u","l","t","s"," ","-","-">>

\* keys of get_complex_query_mapping() (two of the twelve, written without
\* the pictograph each key starts with)
complex_queries ==
    { <<"R","e","c","o","m","m","e","n","d"," ","c","o","u","r","s","e","s"," ","f","o","r"," ","A","l","i","c","e"," ","J","o","h","n","s","o","n"," ","t","o"," ","q","u","a","l","i","f","y"," ","f","o","r"," ","G","o","o","g","l","e"," ","S","o","f","t","w","a","r","e"," ","E","n","g","i","n","e","e","r","i","n","g"," ","I","n","t","e","r","n">>,
      <<"R","e","c","o","m","m","e","n","d"," ","t","o","p"," ","i","n","t","e","r","n","s","h","i","p","s"," ","f","o","r"," ","B","o","b"," ","S","m","i","t","h"," ","b","a","s","e","d"," ","o","n"," ","h","i","s"," ","c","u","r","r","e","n","t"," ","s","k","i","l","l"," ","m","a","t","c","h">> }

query_options == {query_placeholder} \cup complex_queries

\* what the user may have typed into the text input
ManualQuestions ==
    { <<>>, <<"S","h","o","w"," ","a","l","l"," ","s","t","u","d","e","n","t","s">>, <<"S","t","u","d","e","n","t","s"," ","w","i","t","h"," ","p","y","t","h","o","n"," ","a","b","o","v","e"," ","7">> }

\* the widgets as first drawn: the select box on its first option, the text
\* input empty
NoWidgets ==
    [complex_query_select |-> query_placeholder, manual_query_input |-> <<>>]

\* the page was opened, nothing was done on it yet
NoEvent == [kind |-> "load"]

\* no result section is on the page
NoDisplay == [kind |-> "nothing", query |-> None, warning |-> FALSE]

\* Python truth value of a session value: None and '' are false
truthy(v) == v # None /\ v # <<>>

\* "if 'execute_query' not in st.session_state: ... = None" and the same for
\* query_source
session_defaults(state) ==
    [k \in {"execute_query", "query_source"} |->
        IF k \in DOMAIN state THEN state[k] ELSE None]

\* "Execute the selected query": the result section a run that reaches the
\* end of the function draws, and the warning of an empty search
display(state, warning) ==
    IF truthy(state.execute_query) /\ truthy(state.query_source)
    THEN IF state.query_source = <<"c","o","m","p","l","e","x">>
         THEN [kind |-> "complex", query |-> state.execute_query,
               warning |-> warning]
         ELSE IF state.query_source = <<"m","a","n","u","a","l">>
              THEN [kind |-> "manual", query |-> state.execute_query,
                    warning |-> warning]
              ELSE [NoDisplay EXCEPT !.warning = warning]
    ELSE [NoDisplay EXCEPT !.warning = warning]

\* one run of show_natural_query: the session state it leaves, whether it
\* ended in st.rerun(), and what it drew when it reached the end
show_natural_query(state, w, clicked) ==
    LET ss               == session_defaults(state)
        selected_complex == w.complex_query_select
        manual_query     == w.manual_query_input
        search_clicked   == clicked = "search"
    IN  IF /\ selected_complex # query_placeholder
           /\ \/ ss.query_source # <<"c","o","m","p","l","e","x">>
              \/ ss.execute_query # selected_complex
        THEN [session_state |-> [execute_query |-> selected_complex,
                                 query_source  |-> <<"c","o","m","p","l","e","x">>],
              rerun |-> TRUE, shown |-> NoDisplay]
        ELSE IF clicked = "clear"
        THEN [session_state |-> [execute_query |-> None,
                                 query_source  |-> None],
              rerun |-> TRUE, shown |-> NoDisplay]
        ELSE IF search_clicked /\ manual_query # <<>>
        THEN [session_state |-> [execute_query |-> manual_query,
                                 query_source  |-> <<"m","a","n","u","a","l">>],
              rerun |-> TRUE, shown |-> NoDisplay]
        ELSE [session_state |-> ss, rerun |-> FALSE,
              shown |-> display(ss, search_clicked /\ manual_query = <<>>)]


(***************************************************************************)
(* Generation Orchestrator: AIService.generate_cypher_query / _call_groq   *)
(***************************************************************************)
\* a local variable that has not been assigned yet
Unbound == [unbound |-> TRUE]

\* _call_groq after the backend answered: content.strip(), then the Sanitizer
call_groq_return(content) == _clean_cypher_response(Strip(content))

\* the f-string that opens _call_groq: its six entities.get calls in their
\* order, each on the dict as the call before left it: the values the
\* prompt inlines, and the dict when the prompt is built
call_groq_context(entities) ==
    LET query_type_   == entities_get(entities, "query_type", <<"u","n","k","n","o","w","n">>)
        student       == entities_get(query_type_.dict, "student_name", <<"n","o","t"," ","s","p","e","c","i","f","i","e","d">>)
        company       == entities_get(student.dict, "company", <<"n","o","t"," ","s","p","e","c","i","f","i","e","d">>)
        role          == entities_get(company.dict, "role_keywords", <<"n","o","t"," ","s","p","e","c","i","f","i","e","d">>)
        skill         == entities_get(role.dict, "skill", <<"n","o","t"," ","s","p","e","c","i","f","i","e","d">>)
        threshold_    == entities_get(skill.dict, "threshold", <<"n","o","t"," ","s","p","e","c","i","f","i","e","d">>)
    IN  [inlined  |-> <<query_type_.value, student.value, company.value,
                        role.value, skill.value, threshold_.value>>,
         entities |-> threshold_.dict]

\* where generate_cypher_query continues after _call_groq: an exception of
\* the backend is re-raised by _call_groq and caught by the except clause,
\* a returned text goes through the Sanitizer and is returned
after_call_groq(kind) == IF kind = "raise" THEN "except" ELSE "clean"

\* the except clause: return self.intelligent_fallback(query, entities)
except_clause(query, ents) == intelligent_fallback(query, ents)

\* the text of the print call at a line of generate_cypher_query, arg
\* being what the f-string inlines.  The record of line 392 is printed by
\* its repr(), which escapes a lone surrogate: that message has no character
\* beyond those of its head that an encoding may lack.
printed(line, arg) ==
    CASE line = 388 -> <<"\n", Pictograph.robot>> \o <<" ","A","I"," ","I","n","p","u","t",":"," ">> \o arg
      [] line = 392 -> <<Pictograph.chart>> \o <<" ","E","x","t","r","a","c","t","e","d"," ","e","n","t","i","t","i","e","s",":"," ">>
      [] line = 397 -> <<Pictograph.check>> \o <<" ","G","e","n","e","r","a","t","e","d"," ","C","y","p","h","e","r",":","\n">> \o arg
      [] line = 401 -> <<Pictograph.cross>> \o <<" ","A","I"," ","E","r","r","o","r",":"," ">> \o arg
      [] line = 402 -> Pictograph.warning \o <<" ","U","s","i","n","g"," ","i","n","t","e","l","l","i","g","e","n","t"," ","f","a","l","l","b","a","c","k"," ","g","e","n","e","r","a","t","i","o","n">>

\* the exception _call_groq raises when the backend raised one with message m
groq_api_error(m) ==
    [type |-> "Exception", message |-> <<"G","r","o","q"," ","A","P","I"," ","e","r","r","o","r",":"," ">> \o m]

\* reading a local variable that was never assigned
UnboundLocalError ==
    [type    |-> "UnboundLocalError",
     message |-> <<"c","a","n","n","o","t"," ","a","c","c","e","s","s"," ","l","o","c","a","l"," ","v","a","r","i","a","b","l","e"," ","'","e","n","t","i","t","i","e","s","'"," ","w","h","e","r","e"," ","i","t"," ","i","s"," ","n","o","t"," ","a","s","s","o","c","i","a","t","e","d"," ","w","i","t","h"," ","a"," ","v","a","l","u","e">>]

\* the two print calls of the except clause: the exception one of them
\* raises, NoException when both print
except_prints(e, enc) ==
    IF print_raises(printed(401, e.message), enc) # NoException
    THEN print_raises(printed(401, e.message), enc)
    ELSE print_raises(printed(402, <<>>), enc)

\* AIService() -> _init_groq, for the place the key is configured in
\* ("secrets", "environment" or "none"; a key in the secrets hides the
\* environment), what the look at st.secrets does, whether the groq package
\* can be imported, and the encoding of sys.stdout: NoException when the
\* service is constructed, else the exception that leaves the constructor
AIService(key, secrets, groq, enc) ==
    LET from_secrets == print_raises(<<Pictograph.check>> \o <<" ","L","o","a","d","e","d"," ","A","P","I"," ","k","e","y"," ","f","r","o","m"," ","S","t","r","e","a","m","l","i","t"," ","s","e","c","r","e","t","s">>, enc)
        e         == IF secrets.fails THEN secrets.message ELSE from_secrets.message
        could_not == print_raises(Pictograph.warning \o <<" ","C","o","u","l","d"," ","n","o","t"," ","l","o","a","d"," ","f","r","o","m"," ","S","t","r","e","a","m","l","i","t"," ","s","e","c","r","e","t","s",":"," ">> \o e, enc)
        loaded    == print_raises(<<Pictograph.check>> \o <<" ","L","o","a","d","e","d"," ","A","P","I"," ","k","e","y"," ","f","r","o","m"," ",".","e","n","v"," ","f","i","l","e">>, enc)
        ready     == print_raises(<<Pictograph.check>> \o <<" ","A","I"," ","S","e","r","v","i","c","e"," ","i","n","i","t","i","a","l","i","z","e","d"," ","w","i","t","h"," ","G","r","o","q"," ","(","F","R","E","E",")">>, enc)
        self_api_key == (key = "secrets" /\ ~ secrets.fails) \/ key = "environment"
    IN  IF (secrets.fails \/ (key = "secrets" /\ from_secrets # NoException))
           /\ could_not # NoException
        THEN could_not
        ELSE IF ~ self_api_key
        THEN [type    |-> "Exception",
              message |-> <<"G","R","O","Q","_","A","P","I","_","K","E","Y"," ","n","o","t"," ","f","o","u","n","d","!","\n","G","e","t"," ","y","o","u","r"," ","f","r","e","e"," ","k","e","y"," ","f","r","o","m",":"," ","h","t","t","p","s",":","/","/","c","o","n","s","o","l","e",".","g","r","o","q",".","c","o","m","/","\n","A","d","d"," ","t","o"," ",".","e","n","v"," ","f","i","l","e"," ","o","r"," ",".","s","t","r","e","a","m","l","i","t","/","s","e","c","r","e","t","s",".","t","o","m","l">>]
        ELSE IF key = "environment" /\ loaded # NoException THEN loaded
        ELSE IF ~ groq
        THEN [type    |-> "Exception",
              message |-> <<"G","r","o","q"," ","p","a","c","k","a","g","e"," ","n","o","t"," ","f","o","u","n","d","!","\n","I","n","s","t","a","l","l"," ","w","i","t","h",":"," ","p","i","p"," ","i","n","s","t","a","l","l"," ","g","r","o","q">>]
        ELSE ready

\* the dict that the except clause hands to intelligent_fallback: as
\* extract_entities returned it when the print call of line 392 raised, as
\* _call_groq left it when line 395 was reached
entities_caught(entities, called) ==
    IF called THEN call_groq_context(entities).entities ELSE entities

\* generate_cypher_query as a whole, for an utterance, what the backend
\* does (it raises an exception with a message, or returns a text) and the
\* encoding of sys.stdout: the query returned, or the exception raised
generate_cypher_query(query, kind, text, enc) ==
    LET input     == print_raises(printed(388, query), enc)
        extracted == print_raises(printed(392, <<>>), enc)
        cypher    == call_groq_return(text)
        generated == print_raises(printed(397, cypher), enc)
        caught    == IF input # NoException THEN input
                     ELSE IF extracted # NoException THEN extracted
                     ELSE IF kind = "raise" THEN groq_api_error(text)
                     ELSE generated
    IN  IF caught = NoException THEN [returned |-> Str(cypher)]
        ELSE IF except_prints(caught, enc) # NoException
        THEN [raised |-> except_prints(caught, enc)]
        ELSE IF input # NoException THEN [raised |-> UnboundLocalError]
        ELSE [returned |-> except_clause(query,
                                entities_caught(extract_entities(query), extracted = NoException))]

(***************************************************************************)
(* Inputs                                                                  *)
(***************************************************************************)
\* the test_queries of the module's __main__ block
test_queries == {
    <<"F","i","n","d"," ","s","t","u","d","e","n","t","s"," ","w","h","o"," ","q","u","a","l","i","f","y"," ","f","o","r"," ","I","B","M"," ","i","n","t","e","r","n","s","h","i","p">>,
    <<"S","h","o","w"," ","A","l","i","c","e"," ","J","o","h","n","s","o","n","'","s"," ","s","k","i","l","l","s">>,
    <<"S","t","u","d","e","n","t","s"," ","w","i","t","h"," ","P","y","t","h","o","n"," ","p","r","o","f","i","c","i","e","n","c","y"," ","a","b","o","v","e"," ","8">>,
    <<"R","e","c","o","m","m","e","n","d"," ","c","o","u","r","s","e","s"," ","f","o","r"," ","C","a","r","o","l"," ","W","h","i","t","e"," ","t","o"," ","q","u","a","l","i","f","y"," ","f","o","r"," ","G","o","o","g","l","e"," ","S","o","f","t","w","a","r","e"," ","E","n","g","i","n","e","e","r">>,
    <<"W","h","a","t"," ","a","r","e"," ","t","h","e"," ","s","k","i","l","l"," ","g","a","p","s"," ","f","o","r"," ","B","o","b"," ","S","m","i","t","h"," ","f","o","r"," ","A","m","a","z","o","n"," ","M","L"," ","E","n","g","i","n","e","e","r">>,
    <<"S","h","o","w"," ","a","l","l"," ","s","t","u","d","e","n","t","s">>,
    <<"C","o","u","n","t"," ","s","t","u","d","e","n","t","s"," ","b","y"," ","m","a","j","o","r">>,
    <<"W","h","a","t"," ","c","o","u","r","s","e","s"," ","t","e","a","c","h"," ","R","e","a","c","t">>,
    <<"A","v","e","r","a","g","e"," ","G","P","A"," ","b","y"," ","m","a","j","o","r">>,
    <<"R","e","c","o","m","m","e","n","d"," ","i","n","t","e","r","n","s","h","i","p","s"," ","f","o","r"," ","D","a","v","i","d"," ","B","r","o","w","n">>,
    <<"S","h","o","w"," ","C","o","m","p","u","t","e","r"," ","S","c","i","e","n","c","e"," ","s","t","u","d","e","n","t","s"," ","w","i","t","h"," ","G","P","A"," ",">"," ","3",".","5">>,
    <<"F","i","n","d"," ","e","x","p","e","r","t","s"," ","i","n"," ","M","a","c","h","i","n","e"," ","L","e","a","r","n","i","n","g">>,
    <<"W","h","i","c","h"," ","s","t","u","d","e","n","t","s"," ","c","a","n"," ","a","p","p","l","y"," ","t","o"," ","M","i","c","r","o","s","o","f","t">>,
    <<"S","h","o","w"," ","m","e"," ","d","i","f","f","i","c","u","l","t"," ","c","o","u","r","s","e","s">> }

\* further utterances: the worked examples of the design document
example_queries == {
    <<"S","h","o","w"," ","s","k","i","l","l"," ","g","a","p","s"," ","f","o","r"," ","B","o","b"," ","S","m","i","t","h"," ","f","o","r"," ","A","m","a","z","o","n"," ","M","L"," ","E","n","g","i","n","e","e","r">>,
    <<"h","e","l","l","o">>,
    <<"A","v","e","r","a","g","e"," ","G","P","A">>,
    <<"s","t","u","d","e","n","t","s"," ","e","l","i","g","i","b","l","e"," ","f","o","r"," ","G","o","o","g","l","e"," ","w","i","t","h"," ","p","y","t","h","o","n"," ","a","b","o","v","e"," ","8">>,
    <<"R","e","c","o","m","m","e","n","d"," ","i","n","t","e","r","n","s","h","i","p","s"," ","a","n","d"," ","c","o","u","r","s","e","s"," ","f","o","r"," ","D","a","v","i","d"," ","B","r","o","w","n"," ","a","t"," ","G","o","o","g","l","e">>,
    <<"S","t","u","d","e","n","t","s"," ","w","i","t","h"," ","P","y","t","h","o","n"," ","p","r","o","f","i","c","i","e","n","c","y"," ","a","b","o","v","e"," ","0">>,
    <<"C","o","m","p","a","r","e"," ","A","m","a","z","o","n"," ","a","n","d"," ","G","o","o","g","l","e"," ","f","o","r"," ","s","q","l"," ","a","n","d"," ","p","y","t","h","o","n"," ","s","k","i","l","l","s">>,
    <<"A","v","e","r","a","g","e"," ","G","P","A"," ","b","y"," ","m","a","j","o","r">>,
    <<"A","l","i","c","e","'","s"," ","c","o","u","r","s","e","s"," ","f","o","r"," ","B","o","b"," ","S","m","i","t","h">>,
    <<"S","t","u","d","e","n","t","s"," ","w","i","t","h"," ","p","y","t","h","o","n"," ",">","="," ","8">>,
    <<"S","t","u","d","e","n","t","s"," ","w","i","t","h"," ","p","y","t","h","o","n"," ","<"," ","5"," ","o","r"," ","l","e","s","s"," ","t","h","a","n"," ","6",".","5">>,
    <<"S","t","u","d","e","n","t","s"," ","w","i","t","h"," ","p","y","t","h","o","n"," ","m","o","r","e"," ","t","h","a","n"," ","7",".","2","5"," ","a","n","d"," ","a","b","o","v","e"," ","3">> }

\* utterances with characters outside ASCII: a lone surrogate (JSON writes
\* it "\udc80"), an Arabic-Indic digit, a no-break space before the number,
\* the Kelvin sign (lowercased to k), a capital I with dot above (lowercased
\* to two characters), and numbers whose float is not the numeral that was
\* written
unicode_queries == {
    <<"S","h","o","w"," ","a","l","l"," ","s","t","u","d","e","n","t","s"," ">> \o <<LoneSurrogate>>,
    <<"s","t","u","d","e","n","t","s"," ","w","i","t","h"," ","p","y","t","h","o","n"," ","a","b","o","v","e"," ">> \o <<"<U+0663>">>,
    <<"s","t","u","d","e","n","t","s"," ","w","i","t","h"," ","p","y","t","h","o","n"," ","a","b","o","v","e">> \o <<" ">> \o <<"8">>,
    <<"s","t","u","d","e","n","t","s"," ","e","l","i","g","i","b","l","e"," ","f","o","r"," ","f","a","c","e","b","o","o">> \o <<"<U+212A>">>,
    <<"<U+0130>">> \o <<"B","M"," ","s","t","u","d","e","n","t","s"," ",">"," ","2">>,
    <<"s","t","u","d","e","n","t","s"," ","w","i","t","h"," ","p","y","t","h","o","n"," ","a","b","o","v","e"," ","1",".","0","0","0","0","0","0","0","0","0","0","0","0","0","0","0","0","1">>,
    <<"s","t","u","d","e","n","t","s"," ","w","i","t","h"," ","p","y","t","h","o","n"," ","a","b","o","v","e"," ","0",".","0","0","0","0","1">>,
    <<"s","t","u","d","e","n","t","s"," ","w","i","t","h"," ","p","y","t","h","o","n"," ","a","b","o","v","e"," ","1","2","3","4","5","6","7","8","9","0","1","2","3","4","5","6","7","8","9","0">> }

FixedUtterances ==
    test_queries \cup example_queries \cup unicode_queries

\* phrases from which further utterances are composed
PhraseVocab == <<
    <<"R","e","c","o","m","m","e","n","d">>, <<"c","o","u","n","t">>, <<"a","v","e","r","a","g","e"," ","g","p","a">>, <<"m","i","s","s","i","n","g"," ","s","k","i","l","l","s">>,
    <<"s","t","u","d","e","n","t","s">>, <<"e","l","i","g","i","b","l","e">>, <<"c","o","u","r","s","e","s">>, <<"i","n","t","e","r","n","s","h","i","p","s">>, <<"b","y"," ","m","a","j","o","r">>,
    <<"f","o","r"," ","B","o","b"," ","S","m","i","t","h">>, <<"A","l","i","c","e","'","s">>, <<"A","m","a","z","o","n">>, <<"M","L"," ","E","n","g","i","n","e","e","r">>,
    <<"j","a","v","a","s","c","r","i","p","t">>, <<"a","b","o","v","e"," ","8">>, <<">"," ","0">>, <<"b","e","l","o","w"," ","5">> >>

\* largest number of phrases in a composed utterance
MaxPhrases == 3

\* the phrases with index in I, in vocabulary order, separated by blanks
RECURSIVE Compose(_)
Compose(I) ==
    IF I = {} THEN <<>>
    ELSE LET i == SetMin(I)
         IN  IF I = {i} THEN PhraseVocab[i]
             ELSE PhraseVocab[i] \o <<" ">> \o Compose(I \ {i})

ComposedUtterances ==
    {Compose(I) : I \in {J \in SUBSET (1..Len(PhraseVocab)) : Cardinality(J) <= MaxPhrases}}

Utterances == FixedUtterances \cup ComposedUtterances

\* lines from which the texts returned by the AI backend are composed
ResponseLines == <<
    <<"M","A","T","C","H"," ","(","s",":","S","t","u","d","e","n","t",")"," ","R","E","T","U","R","N"," ","s",".","n","a","m","e",";">>,
    <<"/","/"," ","l","i","s","t"," ","t","h","e"," ","s","t","u","d","e","n","t","s">>,
    <<"H","e","r","e","'","s"," ","t","h","e"," ","q","u","e","r","y",":">>,
    <<"R","E","T","U","R","N"," ","'">> \o <<LoneSurrogate, "'">> >>

\* largest number of lines in a text returned by the AI backend
MaxLines == 2

ResponseTexts ==
    {Join([i \in 1..n |-> ResponseLines[f[i]]], <<"\n">>) :
        n \in 0..MaxLines, f \in [1..MaxLines -> 1..Len(ResponseLines)]}

(***************************************************************************)
(* State                                                                   *)
(***************************************************************************)
VARIABLES
    api_key,        \* where GROQ_API_KEY is configured: "secrets", "environment", "none"
    ai_service,     \* the global of app.py: "unbound", or "ready" once constructed
    pc,             \* position of the start-up / of the current translate call
    utterance,      \* natural_language_query of the current call
    entities,       \* the local variable entities of generate_cypher_query
    ai_kind,        \* what the backend did in this call: "none", "raise", "text"
    ai_text,        \* the text the backend returned, or the message it raised
    cypher_query,   \* the value generate_cypher_query returned
    calls,          \* how often each step ran in the current call
    cleaned,        \* the texts the Sanitizer returned so far, in order
    frames,         \* the locals of each of the concurrent translate calls
    heap,           \* the objects the concurrent calls reach, by identity
    recommender,    \* the global recommender of app.py: the engine and its driver
    endpoint,       \* the route of the current HTTP request
    db,             \* what the database does with the query of the current request
    result,         \* the dict execute_query returned to the endpoint
    status,         \* the HTTP status of the response
    session_state,  \* st.session_state of the dashboard session
    widgets,        \* values of the keyed widgets of the query page
    button,         \* the button whose click started the next run
    event,          \* the user's last action on the page
    shown,          \* what the last complete run rendered
    stdout,         \* the encoding and error handler of sys.stdout
    groq_package,   \* whether the package groq can be imported
    exception       \* the exception caught by, or leaving, the current call

vars == <<api_key, ai_service, pc, utterance, entities, ai_kind, ai_text,
          cypher_query, calls, cleaned, frames, recommender, endpoint, db,
          result, status, session_state, widgets, button, event, shown,
          stdout, groq_package, exception, heap>>

NoCalls == [extract |-> 0, groq |-> 0, clean |-> 0, fallback |-> 0]

\* no translate call is in flight
NoFrames == <<>>

\* and no object of one was built
NoObjects == <<>>

Init ==
    /\ api_key \in {"secrets", "environment", "none"}
    /\ ai_service = "unbound"
    /\ pc = "startup"
    /\ utterance = <<>>
    /\ entities = Unbound
    /\ ai_kind = "none"
    /\ ai_text = <<>>
    /\ cypher_query = ""
    /\ calls = NoCalls
    /\ cleaned = <<>>
    /\ frames = NoFrames
    /\ heap = NoObjects
    /\ recommender = NoEngine
    /\ endpoint = "none"
    /\ db = NoOutcome
    /\ result = Unbound
    /\ status = 0
    /\ session_state = NoSession
    /\ widgets = NoWidgets
    /\ button = "none"
    /\ event = NoEvent
    /\ shown = NoDisplay
    /\ stdout \in Stdouts
    /\ groq_package \in BOOLEAN
    /\ exception = NoException

\* app.py lifespan up to the yield: the first print call, AIService(), then
\* RecommendationEngine() with what its connection test does, then the
\* second print call.  An exception of any of them leaves lifespan and the
\* application does not start; the global ai_service is assigned by then if
\* it was the engine that raised.
lifespan(secrets, conn) ==
    /\ pc = "startup"
    /\ api_key = "secrets" => ~ secrets.fails
    /\ LET initializing == print_raises(<<Pictograph.arrows>> \o <<" ","I","n","i","t","i","a","l","i","z","i","n","g"," ","A","I"," ","S","e","r","v","i","c","e"," ","a","n","d"," ","R","e","c","o","m","m","e","n","d","a","t","i","o","n"," ","E","n","g","i","n","e",".",".",".">>, stdout)
           service      == AIService(api_key, secrets, groq_package, stdout)
           engine       == RecommendationEngine(secrets, conn, stdout)
       IN  IF initializing # NoException
           THEN /\ exception' = initializing
                /\ UNCHANGED <<ai_service, recommender>>
                /\ pc' = "startup_failed"
           ELSE IF service # NoException
           THEN /\ exception' = service
                /\ UNCHANGED <<ai_service, recommender>>
                /\ pc' = "startup_failed"
           ELSE IF "driver" \notin DOMAIN engine
           THEN /\ exception' = engine
                /\ ai_service' = "ready"
                /\ UNCHANGED recommender
                /\ pc' = "startup_failed"
           ELSE /\ exception' = exception
                /\ ai_service' = "ready"
                /\ recommender' = engine
                /\ pc' = "idle"
    /\ UNCHANGED <<api_key, utterance, entities, ai_kind, ai_text, cypher_query,
                   calls, cleaned, frames, endpoint, db, result, status,
                   session_state, widgets, button, event, shown, stdout,
                   groq_package, heap>>

\* app.py lifespan after the yield, when the server stops: recommender.close()
shutdown ==
    /\ pc = "idle"
    /\ recommender' = IF "raised" \in DOMAIN close(recommender, stdout)
                      THEN recommender
                      ELSE close(recommender, stdout)
    /\ pc' = "stopped"
    /\ UNCHANGED <<api_key, ai_service, utterance, entities, ai_kind, ai_text,
                   cypher_query, calls, cleaned, frames, endpoint, db, result,
                   status, session_state, widgets, button, event, shown, stdout,
                   groq_package, exception, heap>>

\* POST /api/query calls generate_cypher_query: the first print call, then
\* entities = self.extract_entities(query), then the second print call.  An
\* exception of the first print call is caught by the except clause before
\* entities is assigned.
Extract(query) ==
    /\ pc = "idle"
    /\ ai_service = "ready"
    /\ utterance' = query
    /\ ai_kind' = "none"
    /\ ai_text' = <<>>
    /\ cypher_query' = ""
    /\ endpoint' = "/api/query"
    /\ IF print_raises(printed(388, query), stdout) # NoException
       THEN /\ exception' = print_raises(printed(388, query), stdout)
            /\ entities' = Unbound
            /\ calls' = NoCalls
            /\ pc' = "except"
       ELSE /\ entities' = extract_entities(query)
            /\ calls' = [NoCalls EXCEPT !.extract = 1]
            /\ exception' = print_raises(printed(392, <<>>), stdout)
            /\ pc' = IF print_raises(printed(392, <<>>), stdout) # NoException
                     THEN "except" ELSE "call_groq"
    /\ UNCHANGED <<api_key, ai_service, cleaned, frames, recommender, db, result,
                   status, session_state, widgets, button, event, shown, stdout,
                   groq_package, heap>>

\* _call_groq: the backend raises (network, authentication, timeout, ...)
\* an exception with the message; _call_groq raises its own in its place
CallGroqRaises(message) ==
    /\ pc = "call_groq"
    /\ ai_kind' = "raise"
    /\ ai_text' = message
    /\ exception' = groq_api_error(message)
    /\ calls' = [calls EXCEPT !.groq = @ + 1]
    /\ pc' = after_call_groq("raise")
    /\ entities' = call_groq_context(entities).entities
    /\ UNCHANGED <<api_key, ai_service, utterance, cypher_query, cleaned, frames,
                   recommender, endpoint, db, result, status, session_state,
                   widgets, button, event, shown, stdout, groq_package, heap>>

\* _call_groq: the backend returns a completion
CallGroqReturns(content) ==
    /\ pc = "call_groq"
    /\ ai_kind' = "text"
    /\ ai_text' = content
    /\ calls' = [calls EXCEPT !.groq = @ + 1]
    /\ pc' = after_call_groq("text")
    /\ entities' = call_groq_context(entities).entities
    /\ UNCHANGED <<api_key, ai_service, utterance, cypher_query, cleaned, frames,
                   recommender, endpoint, db, result, status, session_state,
                   widgets, button, event, shown, stdout, groq_package,
                   exception, heap>>

\* _call_groq returns the sanitized text; generate_cypher_query prints it
\* and returns it.  An exception of the print call is caught by the except
\* clause.
Clean ==
    /\ pc = "clean"
    /\ cleaned' = Append(cleaned, call_groq_return(ai_text))
    /\ calls' = [calls EXCEPT !.clean = @ + 1]
    /\ exception' = print_raises(printed(397, call_groq_return(ai_text)), stdout)
    /\ IF print_raises(printed(397, call_groq_return(ai_text)), stdout) # NoException
       THEN cypher_query' = cypher_query /\ pc' = "except"
       ELSE cypher_query' = Str(call_groq_return(ai_text)) /\ pc' = "done"
    /\ UNCHANGED <<api_key, ai_service, utterance, entities, ai_kind, ai_text,
                   frames, recommender, endpoint, db, result, status,
                   session_state, widgets, button, event, shown, stdout,
                   groq_package, heap>>

\* the except clause of generate_cypher_query: its two print calls, then
\* return self.intelligent_fallback(query, entities).  An exception of a
\* print call leaves generate_cypher_query; so does reading the local
\* variable entities if the try block never assigned it; intelligent_fallback
\* is not called then.
Fallback ==
    /\ pc = "except"
    /\ IF except_prints(exception, stdout) # NoException
       THEN /\ exception' = except_prints(exception, stdout)
            /\ UNCHANGED <<cypher_query, entities, calls>>
            /\ pc' = "raised"
       ELSE IF entities = Unbound
       THEN /\ exception' = UnboundLocalError
            /\ UNCHANGED <<cypher_query, entities, calls>>
            /\ pc' = "raised"
       ELSE /\ cypher_query' = except_clause(utterance, entities)
            /\ entities' = intelligent_fallback_locals(entities).entities
            /\ calls' = [calls EXCEPT !.fallback = @ + 1]
            /\ exception' = NoException
            /\ pc' = "done"
    /\ UNCHANGED <<api_key, ai_service, utterance, ai_kind, ai_text, cleaned,
                   frames, recommender, endpoint, db, result, status,
                   session_state, widgets, button, event, shown, stdout,
                   groq_package, heap>>

\* what the database does with the query of a POST /api/query request
QueryOutcomes ==
    {o \in DbOutcomes : Len(o.rows) <= 1 /\ (o.fails => o.rows = <<>>)
                        /\ \A i \in 1..Len(o.rows) :
                               o.rows[i].status = [kind |-> "scalar", value |-> "Missing"]}

\* POST /api/query after generate_cypher_query returned:
\* result = recommender.execute_query(cypher_query), then the body is
\* returned or an HTTPException raised
Execute(outcome) ==
    /\ pc = "done"
    /\ db' = outcome
    /\ LET res == execute_query(recommender, outcome, stdout)
       IN  /\ result' = res
           /\ status' = endpoint_status(endpoint, res)
    /\ pc' = "responded"
    /\ UNCHANGED <<api_key, ai_service, utterance, entities, ai_kind, ai_text,
                   cypher_query, calls, cleaned, frames, recommender, endpoint,
                   session_state, widgets, button, event, shown, stdout,
                   groq_package, exception, heap>>

\* the end of an endpoint whose call has come back: the body is returned or
\* an HTTPException raised; an exception that left generate_cypher_query is
\* caught by the except clause of the endpoint
Respond ==
    /\ pc \in {"executed", "raised"}
    /\ status' = IF pc = "raised"
                 THEN except_Exception(Raised(exception.type, 0)).status_code
                 ELSE endpoint_status(endpoint, result)
    /\ pc' = "responded"
    /\ UNCHANGED <<api_key, ai_service, utterance, entities, ai_kind, ai_text,
                   cypher_query, calls, cleaned, frames, recommender, endpoint,
                   db, result, session_state, widgets, button, event, shown,
                   stdout, groq_package, exception, heap>>

\* the response is sent; the locals of the request are gone and the
\* service waits for the next request
Done ==
    /\ pc = "responded"
    /\ pc' = "idle"
    /\ utterance' = <<>>
    /\ entities' = Unbound
    /\ ai_kind' = "none"
    /\ ai_text' = <<>>
    /\ cypher_query' = ""
    /\ calls' = NoCalls
    /\ cleaned' = <<>>
    /\ endpoint' = "none"
    /\ db' = NoOutcome
    /\ result' = Unbound
    /\ status' = 0
    /\ exception' = NoException
    /\ UNCHANGED <<api_key, ai_service, frames, recommender, session_state,
                   widgets, button, event, shown, stdout, groq_package, heap>>

Next ==
    \/ \E secrets \in SecretsOutcomes, conn \in ConnectionOutcomes : lifespan(secrets, conn)
    \/ shutdown
    \/ \E query \in FixedUtterances : Extract(query)
    \/ \E message \in ErrorMessages : CallGroqRaises(message)
    \/ \E content \in ResponseTexts : CallGroqReturns(content)
    \/ Clean
    \/ Fallback
    \/ \E outcome \in QueryOutcomes : Execute(outcome)
    \/ Respond
    \/ Done

Spec == Init /\ [][Next]_vars

(***************************************************************************)
(* The Entity Extractor and the Template Synthesizer called on their own   *)
(***************************************************************************)
\* extract_entities(utterance)
ApplyExtract ==
    /\ pc = "input"
    /\ entities' = extract_entities(utterance)
    /\ calls' = [calls EXCEPT !.extract = @ + 1]
    /\ pc' = "extracted"
    /\ UNCHANGED <<api_key, ai_service, utterance, ai_kind, ai_text, cypher_query,
                   cleaned, frames, recommender, endpoint, db, result, status,
                   session_state, widgets, button, event, shown, stdout,
                   groq_package, exception, heap>>

\* intelligent_fallback(utterance, entities)
ApplyFallback ==
    /\ pc = "extracted"
    /\ cypher_query' = intelligent_fallback(utterance, entities)
    /\ calls' = [calls EXCEPT !.fallback = @ + 1]
    /\ pc' = "synthesized"
    /\ UNCHANGED <<api_key, ai_service, utterance, entities, ai_kind, ai_text,
                   cleaned, frames, recommender, endpoint, db, result, status,
                   session_state, widgets, button, event, shown, stdout,
                   groq_package, exception, heap>>

\* every utterance, through the extractor and then the synthesizer
InitExtract ==
    /\ api_key = "environment"
    /\ ai_service = "ready"
    /\ pc = "input"
    /\ utterance \in Utterances
    /\ entities = Unbound
    /\ ai_kind = "none"
    /\ ai_text = <<>>
    /\ cypher_query = ""
    /\ calls = NoCalls
    /\ cleaned = <<>>
    /\ frames = NoFrames
    /\ heap = NoObjects
    /\ recommender = [driver |-> "connected"]
    /\ endpoint = "none"
    /\ db = NoOutcome
    /\ result = Unbound
    /\ status = 0
    /\ session_state = NoSession
    /\ widgets = NoWidgets
    /\ button = "none"
    /\ event = NoEvent
    /\ shown = NoDisplay
    /\ stdout = [encoding |-> "utf-8", errors |-> "strict"]
    /\ groq_package = TRUE
    /\ exception = NoException

NextExtract == ApplyExtract \/ ApplyFallback

SpecExtract == InitExtract /\ [][NextExtract]_vars

\* the words the synthesizer looks for in the utterance
FlagWords == << <<"s","t","u","d","e","n","t">>, <<"i","n","t","e","r","n","s","h","i","p">>, <<"c","o","u","r","s","e">>, <<"s","k","i","l","l">>, <<"m","a","j","o","r">>, <<"g","p","a">> >>

RECURSIVE JoinWords(_)
JoinWords(I) ==
    IF I = {} THEN <<>>
    ELSE LET i == SetMin(I)
         IN  IF I = {i} THEN FlagWords[i]
             ELSE FlagWords[i] \o <<" ">> \o JoinWords(I \ {i})

FlagUtterances == {JoinWords(I) : I \in SUBSET (1..Len(FlagWords))}

QueryTypes == { <<"r","e","c","o","m","m","e","n","d","a","t","i","o","n">>, <<"g","a","p","_","a","n","a","l","y","s","i","s">>, <<"m","a","t","c","h","i","n","g">>,
                <<"a","g","g","r","e","g","a","t","i","o","n">>, <<"r","e","t","r","i","e","v","a","l">> }

\* Intent Records with every combination of present and absent fields
FullRecords ==
    [student_name  : {None, <<"b","o","b"," ","s","m","i","t","h">>},
     company       : {None, <<"a","m","a","z","o","n">>},
     role_keywords : {None, <<"m","l">>},
     skill         : {None, <<"p","y","t","h","o","n">>},
     course        : {None},
     threshold     : {None, <<"float", <<>>, 0>>, <<"float", <<"8">>, 1>>},
     query_type    : QueryTypes \cup {None}]

\* the same records without the key 'threshold'
RecordsWithoutThreshold ==
    [student_name  : {None, <<"b","o","b"," ","s","m","i","t","h">>},
     company       : {None, <<"a","m","a","z","o","n">>},
     role_keywords : {None, <<"m","l">>},
     skill         : {None, <<"p","y","t","h","o","n">>},
     course        : {None},
     query_type    : QueryTypes \cup {None}]

IntentRecords == FullRecords \cup RecordsWithoutThreshold

\* every flag combination with every Intent Record, through the synthesizer
InitFallback ==
    /\ api_key = "environment"
    /\ ai_service = "ready"
    /\ pc = "extracted"
    /\ utterance \in FlagUtterances
    /\ entities \in IntentRecords
    /\ ai_kind = "none"
    /\ ai_text = <<>>
    /\ cypher_query = ""
    /\ calls = NoCalls
    /\ cleaned = <<>>
    /\ frames = NoFrames
    /\ heap = NoObjects
    /\ recommender = [driver |-> "connected"]
    /\ endpoint = "none"
    /\ db = NoOutcome
    /\ result = Unbound
    /\ status = 0
    /\ session_state = NoSession
    /\ widgets = NoWidgets
    /\ button = "none"
    /\ event = NoEvent
    /\ shown = NoDisplay
    /\ stdout = [encoding |-> "utf-8", errors |-> "strict"]
    /\ groq_package = TRUE
    /\ exception = NoException

NextFallback == ApplyFallback

SpecFallback == InitFallback /\ [][NextFallback]_vars

(***************************************************************************)
(* SpecClean: _clean_cypher_response (run once, then again on its own      *)
(* result) and _fix_cypher_scoping on texts composed of SanitizerLines     *)
(***************************************************************************)
\* lines from which the texts handed to the Sanitizer are composed
SanitizerLines == ResponseLines \o <<
    <<Backtick,Backtick,Backtick,"c","y","p","h","e","r">>,
    <<Backtick,Backtick,Backtick>>,
    <<>>,
    <<" "," ",";">>,
    <<"R","E","T","U","R","N"," ","r","o","u","n","d","(","a","v","g","_","g","a","p",","," ","1",")"," ","a","s"," ","S","k","i","l","l","_","G","a","p","_","F","i","l","l","e","d">>,
    <<"O","R","D","E","R"," ","B","Y"," ","a","v","g","_","g","a","p"," ","D","E","S","C">>,
    <<"R","E","T","U","R","N"," ","r","o","u","n","d","(","m","a","t","c","h","_","p","e","r","c","e","n","t",","," ","1",")"," ","A","S"," ","M","a","t","c","h","_","P","e","r","c","e","n","t">>,
    <<"O","R","D","E","R"," ","B","Y"," ","m","a","t","c","h","_","p","e","r","c","e","n","t"," ","D","E","S","C">>,
    <<"R","E","T","U","R","N"," ","m"," ","a","s"," ","M","a","t","c","h","_","P","e","r","c","e","n","t"," ","O","R","D","E","R"," ","B","Y"," ","m","a","t","c","h","_","p","e","r","c","e","n","t"," ","D","E","S","C">>,
    <<"*"," ",Backtick,Backtick,Backtick>>,
    <<"/","/"," ","N","o","t","e",":"," ","a","l","l"," ","s","t","u","d","e","n","t","s">> >>

SanitizerTexts ==
    {Join([i \in 1..n |-> SanitizerLines[f[i]]], <<"\n">>) :
        n \in 0..MaxLines, f \in [1..MaxLines -> 1..Len(SanitizerLines)]}

\* how often the Sanitizer is run in a row, each run on the previous result
MaxRuns == 2

\* one call of _clean_cypher_response: on the text, then on its last result
ApplyClean ==
    /\ pc \in {"text", "cleaned"}
    /\ Len(cleaned) < MaxRuns
    /\ cleaned' = Append(cleaned, _clean_cypher_response(
                      IF cleaned = <<>> THEN ai_text ELSE cleaned[Len(cleaned)]))
    /\ calls' = [calls EXCEPT !.clean = @ + 1]
    /\ pc' = "cleaned"
    /\ UNCHANGED <<api_key, ai_service, utterance, entities, ai_kind, ai_text,
                   cypher_query, frames, recommender, endpoint, db, result,
                   status, session_state, widgets, button, event, shown, stdout,
                   groq_package, exception, heap>>

\* one call of _fix_cypher_scoping on the text
ApplyFixScoping ==
    /\ pc = "text"
    /\ cleaned' = <<_fix_cypher_scoping(ai_text)>>
    /\ pc' = "fixed"
    /\ UNCHANGED <<api_key, ai_service, utterance, entities, ai_kind, ai_text,
                   cypher_query, calls, frames, recommender, endpoint, db, result,
                   status, session_state, widgets, button, event, shown, stdout,
                   groq_package, exception, heap>>

InitClean ==
    /\ api_key = "environment"
    /\ ai_service = "ready"
    /\ pc = "text"
    /\ utterance = <<>>
    /\ entities = Unbound
    /\ ai_kind = "text"
    /\ ai_text \in SanitizerTexts
    /\ cypher_query = ""
    /\ calls = NoCalls
    /\ cleaned = <<>>
    /\ frames = NoFrames
    /\ heap = NoObjects
    /\ recommender = [driver |-> "connected"]
    /\ endpoint = "none"
    /\ db = NoOutcome
    /\ result = Unbound
    /\ status = 0
    /\ session_state = NoSession
    /\ widgets = NoWidgets
    /\ button = "none"
    /\ event = NoEvent
    /\ shown = NoDisplay
    /\ stdout = [encoding |-> "utf-8", errors |-> "strict"]
    /\ groq_package = TRUE
    /\ exception = NoException

NextClean == ApplyClean \/ ApplyFixScoping

SpecClean == InitClean /\ [][NextClean]_vars

(***************************************************************************)
(* SpecConcurrent: several natural_language_query requests run             *)
(* generate_cypher_query on the one AIService instance at the same time    *)
(* (FastAPI runs the synchronous endpoint in a thread pool); the steps of  *)
(* the calls interleave                                                    *)
(***************************************************************************)
\* number of translate calls in flight at the same time
MaxCalls == 2

ConcurrentUtterances == {
    <<"S","t","u","d","e","n","t","s"," ","w","i","t","h"," ","P","y","t","h","o","n"," ","p","r","o","f","i","c","i","e","n","c","y"," ","a","b","o","v","e"," ","8">>,
    <<"h","e","l","l","o"," ">> \o <<LoneSurrogate>> }

ConcurrentResponses == {
    <<"M","A","T","C","H"," ","(","s",":","S","t","u","d","e","n","t",")"," ","R","E","T","U","R","N"," ","s",".","n","a","m","e",";">>,
    <<"R","E","T","U","R","N"," ","'">> \o <<LoneSurrogate, "'">> }

\* the identity of the AIService object that lifespan bound to the global
\* ai_service: the self of every call
Self == 0

\* its attributes as _init_groq set them
AIServiceObject ==
    [provider |-> "groq", api_key |-> "GROQ_API_KEY", client |-> "Groq",
     model |-> "llama-3.1-70b-versatile"]

\* no frame of extract_entities: the method is not running in the call
NotRunning == [running |-> FALSE]

\* the frame of a call that has not started
NewFrame == [pc |-> "idle", utterance |-> <<>>, extract_entities |-> NotRunning,
             entities |-> Unbound, ai_kind |-> "none", ai_text |-> <<>>,
             cypher_query |-> "", exception |-> NoException]

\* the object a display evaluates to: a new one, that is, one whose identity
\* no object of the heap has
new_object(objects) ==
    SetMin({n \in 1..(Cardinality(DOMAIN objects) + 1) : n \notin DOMAIN objects})

\* seeded fault: the record is one dict kept for all calls (on the instance,
\* or as a default argument), which every call resets and fills again
entities_object_kept(objects) == 1

\* the dict display that opens extract_entities
entities_object(objects) == new_object(objects)

\* call p, the p-th request to reach generate_cypher_query: the first
\* print call, then self.extract_entities(query) is entered: its dict
\* display builds a new dict, and its locals companies, roles and
\* common_skills hold the tables their displays build (the tables are
\* built when the body reaches them, which no other statement can tell
\* from their being built at entry; no reference to them leaves the frame)
CallExtract(p, query) ==
    /\ frames[p].pc = "idle"
    /\ \A q \in 1..(p - 1) : frames[q].pc # "idle"
    /\ IF print_raises(printed(388, query), stdout) # NoException
       THEN /\ frames' = [frames EXCEPT
                             ![p].utterance = query,
                             ![p].exception = print_raises(printed(388, query), stdout),
                             ![p].pc = "except"]
            /\ heap' = heap
       ELSE LET d == entities_object(heap)
            IN  /\ heap' = [n \in DOMAIN heap \cup {d} |->
                                IF n = d THEN entities_display ELSE heap[n]]
                /\ frames' = [frames EXCEPT
                                 ![p].utterance = query,
                                 ![p].extract_entities =
                                     [entities |-> [object |-> d], tables |-> Tables],
                                 ![p].pc = "extract"]
    /\ UNCHANGED <<api_key, ai_service, pc, utterance, entities, ai_kind, ai_text,
                   cypher_query, calls, cleaned, recommender, endpoint, db,
                   result, status, session_state, widgets, button, event, shown,
                   stdout, groq_package, exception>>

\* call p: the body of extract_entities runs on its dict and its tables and
\* returns the dict; its frame is dropped and its tables with it;
\* generate_cypher_query binds the dict to its local entities; then the
\* second print call
CallExtractReturn(p) ==
    /\ frames[p].pc = "extract"
    /\ LET d == frames[p].extract_entities.entities.object
           extracted == print_raises(printed(392, <<>>), stdout)
       IN  /\ heap' = [heap EXCEPT
                          ![d] = extract_entities_body(
                                     heap[d], frames[p].extract_entities.tables,
                                     frames[p].utterance)]
           /\ frames' = [frames EXCEPT
                            ![p].extract_entities = NotRunning,
                            ![p].entities = [object |-> d],
                            ![p].exception = extracted,
                            ![p].pc = IF extracted # NoException
                                      THEN "except" ELSE "call_groq"]
    /\ UNCHANGED <<api_key, ai_service, pc, utterance, entities, ai_kind, ai_text,
                   cypher_query, calls, cleaned, recommender, endpoint, db,
                   result, status, session_state, widgets, button, event, shown,
                   stdout, groq_package, exception>>

\* call p: _call_groq builds its prompt from the dict; the backend, called
\* through self.client with self.model, raises
CallGroqRaisesIn(p, message) ==
    /\ frames[p].pc = "call_groq"
    /\ frames' = [frames EXCEPT ![p].ai_kind = "raise",
                                ![p].ai_text = message,
                                ![p].exception = groq_api_error(message),
                                ![p].pc = after_call_groq("raise")]
    /\ heap' = [heap EXCEPT ![frames[p].entities.object] =
                                call_groq_context(@).entities]
    /\ UNCHANGED <<api_key, ai_service, pc, utterance, entities, ai_kind, ai_text,
                   cypher_query, calls, cleaned, recommender, endpoint, db,
                   result, status, session_state, widgets, button, event, shown,
                   stdout, groq_package, exception>>

\* call p: _call_groq builds its prompt from the dict; the backend, called
\* through self.client with self.model, returns a completion
CallGroqReturnsIn(p, content) ==
    /\ frames[p].pc = "call_groq"
    /\ heap[Self].client = "Groq"
    /\ frames' = [frames EXCEPT ![p].ai_kind = "text",
                                ![p].ai_text = content,
                                ![p].pc = after_call_groq("text")]
    /\ heap' = [heap EXCEPT ![frames[p].entities.object] =
                                call_groq_context(@).entities]
    /\ UNCHANGED <<api_key, ai_service, pc, utterance, entities, ai_kind, ai_text,
                   cypher_query, calls, cleaned, recommender, endpoint, db,
                   result, status, session_state, widgets, button, event, shown,
                   stdout, groq_package, exception>>

\* the heap when the frame f of a call is dropped (the call returns, or an
\* exception leaves it): the dict that only its local entities referred to
\* goes with it
Collected(objects, f) ==
    IF f.entities = Unbound THEN objects
    ELSE [n \in DOMAIN objects \ {f.entities.object} |-> objects[n]]

\* call p: the sanitized text is printed and returned
CallClean(p) ==
    /\ frames[p].pc = "clean"
    /\ LET cypher == call_groq_return(frames[p].ai_text)
       IN  IF print_raises(printed(397, cypher), stdout) # NoException
           THEN /\ frames' = [frames EXCEPT
                                 ![p].exception = print_raises(printed(397, cypher), stdout),
                                 ![p].pc = "except"]
                /\ heap' = heap
           ELSE /\ frames' = [frames EXCEPT ![p].cypher_query = Str(cypher),
                                            ![p].entities = Unbound,
                                            ![p].pc = "done"]
                /\ heap' = Collected(heap, frames[p])
    /\ UNCHANGED <<api_key, ai_service, pc, utterance, entities, ai_kind, ai_text,
                   cypher_query, calls, cleaned, recommender, endpoint, db,
                   result, status, session_state, widgets, button, event, shown,
                   stdout, groq_package, exception>>

\* call p: the except clause prints and returns
\* intelligent_fallback(query, entities), which reads the dict
CallFallback(p) ==
    /\ frames[p].pc = "except"
    /\ frames' =
           IF except_prints(frames[p].exception, stdout) # NoException
           THEN [frames EXCEPT ![p].exception = except_prints(@, stdout),
                               ![p].entities = Unbound,
                               ![p].pc = "raised"]
           ELSE IF frames[p].entities = Unbound
           THEN [frames EXCEPT ![p].exception = UnboundLocalError,
                               ![p].pc = "raised"]
           ELSE [frames EXCEPT
                    ![p].cypher_query =
                        except_clause(frames[p].utterance,
                                      heap[frames[p].entities.object]),
                    ![p].exception = NoException,
                    ![p].entities = Unbound,
                    ![p].pc = "done"]
    /\ heap' = Collected(heap, frames[p])
    /\ UNCHANGED <<api_key, ai_service, pc, utterance, entities, ai_kind, ai_text,
                   cypher_query, calls, cleaned, recommender, endpoint, db,
                   result, status, session_state, widgets, button, event, shown,
                   stdout, groq_package, exception>>

\* the application after its start-up: both services were constructed, which
\* a stream without the pictographs of their messages does not allow; the
\* connection test of the engine passed
InitConcurrent ==
    /\ api_key = "environment"
    /\ ai_service = "ready"
    /\ pc = "idle"
    /\ utterance = <<>>
    /\ entities = Unbound
    /\ ai_kind = "none"
    /\ ai_text = <<>>
    /\ cypher_query = ""
    /\ calls = NoCalls
    /\ cleaned = <<>>
    /\ frames = [p \in 1..MaxCalls |-> NewFrame]
    /\ heap = [n \in {Self} |-> AIServiceObject]
    /\ recommender = [driver |-> "connected"]
    /\ endpoint = "none"
    /\ db = NoOutcome
    /\ result = Unbound
    /\ status = 0
    /\ session_state = NoSession
    /\ widgets = NoWidgets
    /\ button = "none"
    /\ event = NoEvent
    /\ shown = NoDisplay
    /\ stdout \in {out \in Stdouts : out.encoding = "utf-8"}
    /\ groq_package = TRUE
    /\ exception = NoException

NextConcurrent ==
    \E p \in 1..MaxCalls :
        \/ \E query \in ConcurrentUtterances : CallExtract(p, query)
        \/ CallExtractReturn(p)
        \/ \E message \in {<<"C","o","n","n","e","c","t","i","o","n"," ","r","e","f","u","s","e","d">>} : CallGroqRaisesIn(p, message)
        \/ \E content \in ConcurrentResponses : CallGroqReturnsIn(p, content)
        \/ CallClean(p)
        \/ CallFallback(p)

SpecConcurrent == InitConcurrent /\ [][NextConcurrent]_vars

(***************************************************************************)
(* SpecApi: a GET request to app.py: the endpoint calls the recommender,   *)
(* which runs execute_query, and answers with a status                     *)
(***************************************************************************)
\* the endpoint calls its recommender method, which returns
\* self.execute_query(query, params)
Request(route, outcome) ==
    /\ pc = "serving"
    /\ endpoint' = route
    /\ db' = outcome
    /\ result' = execute_query(recommender, outcome, stdout)
    /\ pc' = "executed"
    /\ UNCHANGED <<api_key, ai_service, utterance, entities, ai_kind, ai_text,
                   cypher_query, calls, cleaned, frames, recommender, status,
                   session_state, widgets, button, event, shown, stdout,
                   groq_package, exception, heap>>

\* the application after its start-up, no request in progress
InitApi ==
    /\ api_key = "environment"
    /\ ai_service = "ready"
    /\ pc = "serving"
    /\ utterance = <<>>
    /\ entities = Unbound
    /\ ai_kind = "none"
    /\ ai_text = <<>>
    /\ cypher_query = ""
    /\ calls = NoCalls
    /\ cleaned = <<>>
    /\ frames = NoFrames
    /\ heap = NoObjects
    /\ recommender \in Engines
    /\ endpoint = "none"
    /\ db = NoOutcome
    /\ result = Unbound
    /\ status = 0
    /\ session_state = NoSession
    /\ widgets = NoWidgets
    /\ button = "none"
    /\ event = NoEvent
    /\ shown = NoDisplay
    /\ stdout \in {out \in Stdouts : out.encoding = "utf-8"}
    /\ groq_package = TRUE
    /\ exception = NoException

NextApi ==
    \/ \E route \in Endpoints, outcome \in DbOutcomes : Request(route, outcome)
    \/ Respond

SpecApi == InitApi /\ [][NextApi]_vars

(***************************************************************************)
(* SpecDashboard: the natural-language page of the dashboard.  Every user  *)
(* action starts a run of show_natural_query, and a run that ends in       *)
(* st.rerun() is followed by another run.  A run that reaches the result   *)
(* section waits in it for the AI backend and for the database; a user     *)
(* action that arrives before a run has finished makes Streamlit stop that *)
(* run at its next st call and start a new one, so what was left of the    *)
(* run, its result section included, is never drawn.                       *)
(***************************************************************************)

\* the user picks another entry of the select box
Select(option) ==
    /\ option # widgets.complex_query_select
    /\ widgets' = [widgets EXCEPT !.complex_query_select = option]
    /\ event' = [kind |-> "select"]
    /\ button' = "none"
    /\ pc' = "run"
    /\ UNCHANGED <<api_key, ai_service, utterance, entities, ai_kind, ai_text,
                   cypher_query, calls, cleaned, frames, recommender, endpoint,
                   db, result, status, session_state, shown, stdout, groq_package,
                   exception, heap>>

\* the user changes the text input and leaves it
Type(text) ==
    /\ text # widgets.manual_query_input
    /\ widgets' = [widgets EXCEPT !.manual_query_input = text]
    /\ event' = [kind |-> "type"]
    /\ button' = "none"
    /\ pc' = "run"
    /\ UNCHANGED <<api_key, ai_service, utterance, entities, ai_kind, ai_text,
                   cypher_query, calls, cleaned, frames, recommender, endpoint,
                   db, result, status, session_state, shown, stdout, groq_package,
                   exception, heap>>

\* the user clicks "Search" or "Clear Results"
Click(name) ==
    /\ button' = name
    /\ event' = [kind |-> name]
    /\ pc' = "run"
    /\ UNCHANGED <<api_key, ai_service, utterance, entities, ai_kind, ai_text,
                   cypher_query, calls, cleaned, frames, recommender, endpoint,
                   db, result, status, session_state, widgets, shown, stdout,
                   groq_package, exception, heap>>

\* a run of the script from its top: it ends in st.rerun(), or it reaches
\* the result section, where it has nothing to draw or draws the heading
\* and calls the AI backend (a manual question) or the database (a
\* pre-built query).  The click that started the run is spent when the
\* run ends.
Run ==
    /\ pc = "run"
    /\ LET run == show_natural_query(session_state, widgets, button)
       IN  /\ session_state' = run.session_state
           /\ IF run.rerun
              THEN shown' = shown /\ button' = "none" /\ pc' = "run"
              ELSE IF run.shown.kind = "nothing"
              THEN shown' = run.shown /\ button' = "none" /\ pc' = "settled"
              ELSE /\ shown' = shown
                   /\ button' = button
                   /\ pc' = IF run.shown.kind = "manual" THEN "generate" ELSE "execute"
    /\ UNCHANGED <<api_key, ai_service, utterance, entities, ai_kind, ai_text,
                   cypher_query, calls, cleaned, frames, recommender, endpoint,
                   db, result, status, widgets, event, stdout, groq_package,
                   exception, heap>>

\* ai_service.generate_cypher_query(user_question) returns, and the run goes
\* on to execute_and_display_query, or it raises, and the run draws the
\* error in the place of the result (below the warning of a click on Search
\* with an empty question, if this run drew one)
Generate(kind, text) ==
    /\ pc = "generate"
    /\ IF "raised" \in DOMAIN generate_cypher_query(session_state.execute_query,
                                                    kind, text, stdout)
       THEN /\ shown' = display(session_state,
                            button = "search" /\ widgets.manual_query_input = <<>>)
            /\ button' = "none"
            /\ pc' = "settled"
       ELSE shown' = shown /\ button' = button /\ pc' = "execute"
    /\ UNCHANGED <<api_key, ai_service, utterance, entities, ai_kind, ai_text,
                   cypher_query, calls, cleaned, frames, recommender, endpoint,
                   db, result, status, session_state, widgets, event, stdout,
                   groq_package, exception, heap>>

\* execute_and_display_query: recommender.execute_query returns or raises
\* inside the try block, and the run draws the result, or the error, in
\* the result section and ends
ExecuteAndDisplay ==
    /\ pc = "execute"
    /\ shown' = display(session_state,
                      button = "search" /\ widgets.manual_query_input = <<>>)
    /\ button' = "none"
    /\ pc' = "settled"
    /\ UNCHANGED <<api_key, ai_service, utterance, entities, ai_kind, ai_text,
                   cypher_query, calls, cleaned, frames, recommender, endpoint,
                   db, result, status, session_state, widgets, event, stdout,
                   groq_package, exception, heap>>

\* the page is opened for the first time: init_services() has constructed
\* both services when the module was imported
InitDashboard ==
    /\ api_key = "environment"
    /\ ai_service = "ready"
    /\ pc = "run"
    /\ utterance = <<>>
    /\ entities = Unbound
    /\ ai_kind = "none"
    /\ ai_text = <<>>
    /\ cypher_query = ""
    /\ calls = NoCalls
    /\ cleaned = <<>>
    /\ frames = NoFrames
    /\ heap = NoObjects
    /\ recommender \in Engines
    /\ endpoint = "none"
    /\ db = NoOutcome
    /\ result = Unbound
    /\ status = 0
    /\ session_state = NoSession
    /\ widgets = NoWidgets
    /\ button = "none"
    /\ event = NoEvent
    /\ shown = NoDisplay
    /\ stdout \in {out \in Stdouts : out.encoding = "utf-8"}
    /\ groq_package = TRUE
    /\ exception = NoException

NextDashboard ==
    \/ \E option \in query_options : Select(option)
    \/ \E text \in ManualQuestions : Type(text)
    \/ \E name \in {"search", "clear"} : Click(name)
    \/ Run
    \/ \E message \in ErrorMessages : Generate("raise", message)
    \/ \E i \in 1..Len(ResponseLines) : Generate("text", ResponseLines[i])
    \/ ExecuteAndDisplay

SpecDashboard == InitDashboard /\ [][NextDashboard]_vars

(***************************************************************************)
(* Properties                                                              *)
(***************************************************************************)
\* the query a call falls back to: the Template Synthesizer on the Intent
\* Record of the same utterance
TemplateQuery == intelligent_fallback(utterance, extract_entities(utterance))

\* C1: every translate call returns, and returns a non-empty query, whatever
\* the utterance and whatever the AI backend did (raised or returned any
\* text).
C1_TranslateNonEmpty ==
    /\ pc # "raised"
    /\ pc = "done" => cypher_query # ""

\* C2: when the AI call raises, generate_cypher_query raises nothing and
\* returns exactly the Template Synthesizer's query for the same utterance
\* and its Intent Record.
C2_FallbackOnException ==
    /\ ai_kind = "raise" => pc # "raised"
    /\ (pc = "done" /\ ai_kind = "raise") => cypher_query = TemplateQuery

\* C3: when the AI backend returns text from which the Sanitizer extracts
\* no query, translate returns the Template Synthesizer's query for the
\* same utterance.
C3_UnusableTextFallsBack ==
    (pc = "done" /\ ai_kind = "text" /\ call_groq_return(ai_text) = <<>>)
        => cypher_query = TemplateQuery

\* C4: without an API key the service still comes up (and so can serve
\* translate requests from the templates).
C4_MissingKeyIsSoft == (api_key = "none" /\ pc # "startup") => ai_service = "ready"

\* C5: in one translate call the entity extraction runs exactly once and
\* before the AI call, the AI backend is invoked at most once, the
\* Sanitizer runs only on text a successful AI call returned, the Template
\* Synthesizer runs at most once and only after the AI call failed, and
\* exactly one of the two paths produced the returned query.
C5_StepOrder ==
    /\ calls.extract <= 1 /\ calls.groq <= 1
    /\ calls.clean <= 1 /\ calls.fallback <= 1
    /\ (pc \in {"call_groq", "clean", "except", "done", "raised"} \/ calls.groq > 0)
          => (calls.extract = 1 /\ entities # Unbound)
    /\ pc = "call_groq" => calls.groq = 0
    /\ (pc = "clean" \/ calls.clean > 0) => (ai_kind = "text" /\ calls.groq = 1)
    /\ (pc = "except" \/ calls.fallback > 0) => (ai_kind = "raise" /\ calls.groq = 1)
    /\ pc = "done" => calls.clean + calls.fallback = 1

\* a field of the Intent Record is known
Known(ents, key) == key \in DOMAIN ents /\ ents[key] # None

\* the utterance mentions a word
Mentions(query, word) == Contains(Lower(query), word)

\* the precondition of branch k of the dispatch list (k in 1..9)
BranchPre(k, query, ents) ==
    LET qt == IF "query_type" \in DOMAIN ents THEN ents.query_type ELSE None
    IN  CASE k = 1 -> qt = <<"m","a","t","c","h","i","n","g">> /\ Mentions(query, <<"s","t","u","d","e","n","t">>)
                      /\ Known(ents, "company")
          [] k = 2 -> qt = <<"r","e","c","o","m","m","e","n","d","a","t","i","o","n">> /\ Mentions(query, <<"i","n","t","e","r","n","s","h","i","p">>)
                      /\ Known(ents, "student_name")
          [] k = 3 -> qt = <<"r","e","c","o","m","m","e","n","d","a","t","i","o","n">> /\ Mentions(query, <<"c","o","u","r","s","e">>)
                      /\ Known(ents, "student_name") /\ Known(ents, "company")
          [] k = 4 -> qt = <<"g","a","p","_","a","n","a","l","y","s","i","s">>
                      /\ Known(ents, "student_name") /\ Known(ents, "company")
          [] k = 5 -> Known(ents, "skill") /\ Mentions(query, <<"s","t","u","d","e","n","t">>)
          [] k = 6 -> Known(ents, "student_name") /\ Mentions(query, <<"s","k","i","l","l">>)
          [] k = 7 -> Known(ents, "skill") /\ Mentions(query, <<"c","o","u","r","s","e">>)
          [] k = 8 -> qt = <<"a","g","g","r","e","g","a","t","i","o","n">> /\ Mentions(query, <<"m","a","j","o","r">>)
          [] k = 9 -> qt = <<"a","g","g","r","e","g","a","t","i","o","n">> /\ Mentions(query, <<"g","p","a">>)

\* the lowest-numbered branch whose precondition holds, 10 if none does
LowestBranch(query, ents) ==
    SetMin({k \in 1..9 : BranchPre(k, query, ents)} \cup {10})

\* the queries branch k can emit for a record (branch 5 has a form with
\* and a form without a proficiency bound)
BranchTemplates(k, ents) ==
    CASE k = 1 -> {eligibility_template(ents.company)}
      [] k = 2 -> {internship_template(ents.student_name)}
      [] k = 3 -> {course_template(ents.student_name, ents.company, ents.role_keywords)}
      [] k = 4 -> {gap_template(ents.student_name, ents.company, ents.role_keywords)}
      [] k = 5 -> {skill_template(ents.skill)}
                  \cup {skill_threshold_template(ents.skill, t) :
                          t \in {entities_get(ents, "threshold", <<"int", 8>>).value} \ {None}}
      [] k = 6 -> {student_skills_template(ents.student_name)}
      [] k = 7 -> {skill_courses_template(ents.skill)}
      [] k = 8 -> {count_by_major_template}
      [] k = 9 -> {average_gpa_template}
      [] k = 10 -> {default_template}

\* C6: the synthesizer emits the template of the lowest-numbered branch
\* whose precondition holds; an input satisfying branches 1 and 5 gets the
\* eligibility template.
C6_FirstMatchWins ==
    pc = "synthesized" =>
        cypher_query \in BranchTemplates(LowestBranch(utterance, entities), entities)

\* an input satisfying the preconditions of branches 1 and 5 was resolved
\* by the eligibility template
C6_Witness ==
    /\ pc = "synthesized"
    /\ BranchPre(1, utterance, entities)
    /\ BranchPre(5, utterance, entities)
    /\ cypher_query = eligibility_template(entities.company)

\* C7: the synthesizer returns a non-empty query for every utterance and
\* every Intent Record, and it returns the list-all-students template
\* exactly when no precondition of branches 1 to 9 holds.
C7_FallbackTotal ==
    pc = "synthesized" =>
        /\ cypher_query # ""
        /\ cypher_query = default_template
              <=> (\A k \in 1..9 : ~ BranchPre(k, utterance, entities))

\* the default template was emitted for a record that has a student, a
\* company and a skill, because no branch applied to the utterance
C7_Witness ==
    /\ pc = "synthesized"
    /\ cypher_query = default_template
    /\ Known(entities, "student_name")
    /\ Known(entities, "company")
    /\ Known(entities, "skill")

Range(seq) == {seq[i] : i \in 1..Len(seq)}

\* C8: the extractor returns a record whose query_type is one of the five
\* classes and whose other fields are absent or in their domain.
C8_RecordWellFormed ==
    pc \in {"extracted", "synthesized"} =>
        /\ DOMAIN entities = {"student_name", "company", "role_keywords", "skill",
                              "course", "threshold", "query_type"}
        /\ entities.query_type \in QueryTypes
        /\ entities.company \in {None} \cup Range(companies)
        /\ entities.role_keywords \in {None, <<"s","o","f","t","w","a","r","e">>, <<"m","l">>, <<"d","a","t","a">>, <<"c","l","o","u","d">>}
        /\ entities.skill \in {None} \cup Range(common_skills)
        /\ entities.course = None
        /\ \/ entities.threshold = None
           \/ /\ entities.threshold[1] = "float"
              /\ \/ entities.threshold[2] = <<"i","n","f">>
                 \/ Range(entities.threshold[2]) \subseteq Range(DigitSeq)
              /\ entities.threshold[3] \in Int
        /\ \/ entities.student_name = None
           \/ /\ entities.student_name # <<>>
              /\ Range(entities.student_name) \cap UpperChars = {}

\* the extractor returned a record with a name, a company, a skill and a
\* threshold
C8_Witness ==
    /\ pc = "extracted"
    /\ entities.student_name # None
    /\ entities.company # None
    /\ entities.skill # None
    /\ entities.threshold # None

\* the classes of the priority cascade, in order, with their keyword tests
C9_ClassHit(k, ql) ==
    CASE k = 1 -> Contains(ql, <<"r","e","c","o","m","m","e","n","d">>) \/ Contains(ql, <<"s","u","g","g","e","s","t">>)
      [] k = 2 -> \/ Contains(ql, <<"m","i","s","s","i","n","g"," ","s","k","i","l","l">>)
                  \/ Contains(ql, <<"s","k","i","l","l"," ","g","a","p">>)
                  \/ (Contains(ql, <<"m","i","s","s","i","n","g">>) /\ Contains(ql, <<"s","k","i","l","l">>))
      [] k = 3 -> \/ Contains(ql, <<"q","u","a","l","i","f","y">>)
                  \/ Contains(ql, <<"e","l","i","g","i","b","l","e">>)
                  \/ Contains(ql, <<"m","a","t","c","h">>)
      [] k = 4 -> \/ Contains(ql, <<"c","o","u","n","t">>)
                  \/ Contains(ql, <<"a","v","e","r","a","g","e">>)
                  \/ Contains(ql, <<"s","u","m">>)
                  \/ Contains(ql, <<"h","o","w"," ","m","a","n","y">>)

C9_Classes == << <<"r","e","c","o","m","m","e","n","d","a","t","i","o","n">>, <<"g","a","p","_","a","n","a","l","y","s","i","s">>, <<"m","a","t","c","h","i","n","g">>,
                 <<"a","g","g","r","e","g","a","t","i","o","n">>, <<"r","e","t","r","i","e","v","a","l">> >>

\* C9: query_type is the earliest class of the cascade whose keywords occur
\* in the lowercased utterance, retrieval if none does.
C9_PriorityCascade ==
    pc \in {"extracted", "synthesized"} =>
        entities.query_type =
            C9_Classes[SetMin({k \in 1..4 : C9_ClassHit(k, Lower(utterance))} \cup {5})]

\* an utterance matching the gap_analysis and the matching class was
\* classified as gap_analysis
C9_Witness ==
    /\ pc = "extracted"
    /\ C9_ClassHit(2, Lower(utterance))
    /\ C9_ClassHit(3, Lower(utterance))
    /\ entities.query_type = <<"g","a","p","_","a","n","a","l","y","s","i","s">>

\* C10: 'Show skill gaps for Bob Smith for Amazon ML Engineer' yields
\* student_name 'bob smith', company 'amazon', role_keywords 'ml',
\* query_type 'gap_analysis' and the skill-gap template with a role filter
\* on 'ml'.
C10_BobSmithExample ==
    (pc = "synthesized"
     /\ utterance = <<"S","h","o","w"," ","s","k","i","l","l"," ","g","a","p","s"," ","f","o","r"," ","B","o","b"," ","S","m","i","t","h"," ","f","o","r"," ","A","m","a","z","o","n"," ","M","L"," ","E","n","g","i","n","e","e","r">>)
        => /\ entities.student_name = <<"b","o","b"," ","s","m","i","t","h">>
           /\ entities.company = <<"a","m","a","z","o","n">>
           /\ entities.role_keywords = <<"m","l">>
           /\ entities.query_type = <<"g","a","p","_","a","n","a","l","y","s","i","s">>
           /\ cypher_query = gap_template(<<"b","o","b"," ","s","m","i","t","h">>, <<"a","m","a","z","o","n">>, <<"m","l">>)

\* C11: an utterance classified as recommendation that mentions 'internship'
\* and yields a student name gets the internship template for that student,
\* whether or not a company was extracted or 'course' is mentioned;
\* 'Recommend internships for David Brown' is classified recommendation
\* with student 'david brown' and no company, and gets that template.
C11_InternshipBeforeCourse ==
    /\ (pc = "synthesized"
        /\ entities.query_type = <<"r","e","c","o","m","m","e","n","d","a","t","i","o","n">>
        /\ Mentions(utterance, <<"i","n","t","e","r","n","s","h","i","p">>)
        /\ entities.student_name # None)
           => cypher_query = internship_template(entities.student_name)
    /\ (pc = "synthesized" /\ utterance = <<"R","e","c","o","m","m","e","n","d"," ","i","n","t","e","r","n","s","h","i","p","s"," ","f","o","r"," ","D","a","v","i","d"," ","B","r","o","w","n">>)
           => /\ entities.query_type = <<"r","e","c","o","m","m","e","n","d","a","t","i","o","n">>
              /\ entities.student_name = <<"d","a","v","i","d"," ","b","r","o","w","n">>
              /\ entities.company = None
              /\ cypher_query = internship_template(<<"d","a","v","i","d"," ","b","r","o","w","n">>)

\* a recommendation utterance naming a student and a company and mentioning
\* both internships and courses got the internship template
C11_Witness ==
    /\ pc = "synthesized"
    /\ entities.query_type = <<"r","e","c","o","m","m","e","n","d","a","t","i","o","n">>
    /\ Mentions(utterance, <<"i","n","t","e","r","n","s","h","i","p">>)
    /\ Mentions(utterance, <<"c","o","u","r","s","e">>)
    /\ entities.student_name # None
    /\ entities.company # None
    /\ cypher_query = internship_template(entities.student_name)

\* C12: when the skill-with-students branch (5) is the one that applies, the
\* query carries the bound 'has.proficiency > T' exactly if a threshold was
\* extracted, T being the extracted value (0 included), and carries no bound
\* when none was extracted; 'Students with Python proficiency above 8'
\* yields skill 'python', threshold 8.0, query_type retrieval and the bound
\* on 8.
C12_BoundIffThreshold ==
    /\ (pc = "synthesized" /\ LowestBranch(utterance, entities) = 5)
           => cypher_query =
                  IF entities.threshold # None
                  THEN skill_threshold_template(entities.skill, entities.threshold)
                  ELSE skill_template(entities.skill)
    /\ (pc = "synthesized" /\ utterance = <<"S","t","u","d","e","n","t","s"," ","w","i","t","h"," ","P","y","t","h","o","n"," ","p","r","o","f","i","c","i","e","n","c","y"," ","a","b","o","v","e"," ","8">>)
           => /\ entities.skill = <<"p","y","t","h","o","n">>
              /\ entities.threshold = <<"float", <<"8">>, 1>>
              /\ entities.query_type = <<"r","e","t","r","i","e","v","a","l">>
              /\ cypher_query = skill_threshold_template(<<"p","y","t","h","o","n">>, <<"float", <<"8">>, 1>>)

\* the lowercased utterance has a threshold trigger followed by a digit
C13_ThresholdPhrase(ql) ==
    \E t \in {<<">">>, <<"a","b","o","v","e">>, <<"g","r","e","a","t","e","r"," ","t","h","a","n">>, <<"m","o","r","e"," ","t","h","a","n">>}, i \in 1..Len(ql) :
        /\ MatchAt(ql, t, i)
        /\ SkipSpace(ql, i + Len(t)) <= Len(ql)
        /\ ql[SkipSpace(ql, i + Len(t))] \in DigitChars

\* the utterance has no uppercase letter, no query-type keyword, no known
\* company, no role trigger, no skill name and no threshold phrase
C13_NoEntity(query) ==
    LET ql == Lower(query)
    IN  /\ \A i \in 1..Len(query) : query[i] \notin UpperChars
        /\ \A k \in 1..4 : ~ C9_ClassHit(k, ql)
        /\ ~ AnyIn(companies, ql)
        /\ \A r \in 1..Len(roles) : ~ AnyIn(roles[r].keywords, ql)
        /\ ~ AnyIn(common_skills, ql)
        /\ ~ C13_ThresholdPhrase(ql)

\* C13: an utterance with no recognizable entity (such as 'hello') yields
\* query_type retrieval with every other field absent, and the default
\* template.
C13_NothingRecognized ==
    (pc = "synthesized" /\ C13_NoEntity(utterance))
        => /\ entities.query_type = <<"r","e","t","r","i","e","v","a","l">>
           /\ \A k \in DOMAIN entities \ {"query_type"} : entities[k] = None
           /\ cypher_query = default_template

\* an utterance made of unrecognized words, one of them a number after
\* 'below', got the default template
C13_Witness ==
    /\ pc = "synthesized"
    /\ C13_NoEntity(utterance)
    /\ Mentions(utterance, <<"b","e","l","o","w">>)
    /\ cypher_query = default_template

\* C14: the Sanitizer is idempotent: run on its own result it returns that
\* result.
C14_SanitizerIdempotent ==
    (pc = "cleaned" /\ Len(cleaned) >= 2) => cleaned[2] = cleaned[1]

\* the number of places at which t occurs in s
C15_Count(s, t) == Cardinality({i \in 1..Len(s) : MatchAt(s, t, i)})

\* the text with its avg_gap ordering clauses written in their rewritten form
C15_AvgGapAside(text) ==
    Replace(text, <<"O","R","D","E","R"," ","B","Y"," ","a","v","g","_","g","a","p">>, <<"O","R","D","E","R"," ","B","Y"," ","S","k","i","l","l","_","G","a","p","_","F","i","l","l","e","d">>)

\* the text with both kinds of ordering clause written in their rewritten form
C15_OrderingAside(text) ==
    Replace(C15_AvgGapAside(text), <<"O","R","D","E","R"," ","B","Y"," ","m","a","t","c","h","_","p","e","r","c","e","n","t">>, <<"O","R","D","E","R"," ","B","Y"," ","M","a","t","c","h","_","P","e","r","c","e","n","t">>)

\* the match_percent rule of _fix_cypher_scoping applies to the text
C15_MatchPercentPair(text) ==
    Contains(text, <<"O","R","D","E","R"," ","B","Y"," ","m","a","t","c","h","_","p","e","r","c","e","n","t">>) /\ Contains(text, <<"a","s"," ","M","a","t","c","h","_","P","e","r","c","e","n","t">>)

\* C15 as stated: a text with both 'ORDER BY avg_gap' and
\* 'as Skill_Gap_Filled' has every 'ORDER BY avg_gap' rewritten to
\* 'ORDER BY Skill_Gap_Filled' and is otherwise unchanged; a text with
\* 'ORDER BY avg_gap' but without the alias is returned unchanged.
C15_AvgGapRewrite ==
    pc = "fixed" =>
        LET out == cleaned[1]
        IN  /\ (Contains(ai_text, <<"O","R","D","E","R"," ","B","Y"," ","a","v","g","_","g","a","p">>)
                /\ Contains(ai_text, <<"a","s"," ","S","k","i","l","l","_","G","a","p","_","F","i","l","l","e","d">>))
                   => /\ ~ Contains(out, <<"O","R","D","E","R"," ","B","Y"," ","a","v","g","_","g","a","p">>)
                      /\ C15_Count(out, <<"O","R","D","E","R"," ","B","Y"," ","S","k","i","l","l","_","G","a","p","_","F","i","l","l","e","d">>)
                           = C15_Count(ai_text, <<"O","R","D","E","R"," ","B","Y"," ","a","v","g","_","g","a","p">>)
                             + C15_Count(ai_text, <<"O","R","D","E","R"," ","B","Y"," ","S","k","i","l","l","_","G","a","p","_","F","i","l","l","e","d">>)
                      /\ C15_AvgGapAside(out) = C15_AvgGapAside(ai_text)
            /\ (Contains(ai_text, <<"O","R","D","E","R"," ","B","Y"," ","a","v","g","_","g","a","p">>)
                /\ ~ Contains(ai_text, <<"a","s"," ","S","k","i","l","l","_","G","a","p","_","F","i","l","l","e","d">>))
                   => out = ai_text

\* C15 amended: with both 'ORDER BY avg_gap' and 'as Skill_Gap_Filled' every
\* 'ORDER BY avg_gap' is rewritten to 'ORDER BY Skill_Gap_Filled'; without
\* the alias every 'ORDER BY avg_gap' is kept; in both cases the rest of the
\* text is unchanged except where the match_percent rule of the same
\* function applies ('ORDER BY match_percent' together with
\* 'as Match_Percent'), which rewrites those ordering clauses.
C15_AvgGapRewriteBesidesMatchPercent ==
    pc = "fixed" =>
        LET out == cleaned[1]
        IN  /\ (Contains(ai_text, <<"O","R","D","E","R"," ","B","Y"," ","a","v","g","_","g","a","p">>)
                /\ Contains(ai_text, <<"a","s"," ","S","k","i","l","l","_","G","a","p","_","F","i","l","l","e","d">>))
                   => /\ ~ Contains(out, <<"O","R","D","E","R"," ","B","Y"," ","a","v","g","_","g","a","p">>)
                      /\ C15_Count(out, <<"O","R","D","E","R"," ","B","Y"," ","S","k","i","l","l","_","G","a","p","_","F","i","l","l","e","d">>)
                           = C15_Count(ai_text, <<"O","R","D","E","R"," ","B","Y"," ","a","v","g","_","g","a","p">>)
                             + C15_Count(ai_text, <<"O","R","D","E","R"," ","B","Y"," ","S","k","i","l","l","_","G","a","p","_","F","i","l","l","e","d">>)
                      /\ C15_OrderingAside(out) = C15_OrderingAside(ai_text)
                      /\ ~ C15_MatchPercentPair(ai_text)
                            => C15_AvgGapAside(out) = C15_AvgGapAside(ai_text)
            /\ (Contains(ai_text, <<"O","R","D","E","R"," ","B","Y"," ","a","v","g","_","g","a","p">>)
                /\ ~ Contains(ai_text, <<"a","s"," ","S","k","i","l","l","_","G","a","p","_","F","i","l","l","e","d">>))
                   => /\ C15_Count(out, <<"O","R","D","E","R"," ","B","Y"," ","a","v","g","_","g","a","p">>)
                           = C15_Count(ai_text, <<"O","R","D","E","R"," ","B","Y"," ","a","v","g","_","g","a","p">>)
                      /\ C15_Count(out, <<"O","R","D","E","R"," ","B","Y"," ","S","k","i","l","l","_","G","a","p","_","F","i","l","l","e","d">>)
                           = C15_Count(ai_text, <<"O","R","D","E","R"," ","B","Y"," ","S","k","i","l","l","_","G","a","p","_","F","i","l","l","e","d">>)
                      /\ C15_OrderingAside(out) = C15_OrderingAside(ai_text)
                      /\ ~ C15_MatchPercentPair(ai_text) => out = ai_text

\* a text with the ordering clause and the alias was rewritten
C15_Witness ==
    /\ pc = "fixed"
    /\ Contains(ai_text, <<"O","R","D","E","R"," ","B","Y"," ","a","v","g","_","g","a","p">>)
    /\ Contains(ai_text, <<"a","s"," ","S","k","i","l","l","_","G","a","p","_","F","i","l","l","e","d">>)
    /\ cleaned[1] # ai_text
    /\ Contains(cleaned[1], <<"O","R","D","E","R"," ","B","Y"," ","S","k","i","l","l","_","G","a","p","_","F","i","l","l","e","d">>)

\* C16: when the text handed to the Sanitizer orders by
\* 'ORDER BY match_percent' and its RETURN clause aliases the column as in
\* the system prompt and the templates ('AS Match_Percent'), no
\* 'ORDER BY match_percent' remains in the result.
C16_MatchPercentRewrite ==
    (pc = "cleaned"
     /\ Contains(ai_text, <<"O","R","D","E","R"," ","B","Y"," ","m","a","t","c","h","_","p","e","r","c","e","n","t">>)
     /\ Contains(ai_text, <<"A","S"," ","M","a","t","c","h","_","P","e","r","c","e","n","t">>))
        => ~ Contains(cleaned[1], <<"O","R","D","E","R"," ","B","Y"," ","m","a","t","c","h","_","p","e","r","c","e","n","t">>)

\* the indices of the lines that contain an explanation marker
C17_MarkerLines(lines) ==
    {i \in 1..Len(lines) : AnyIn(explanation_markers, Lower(lines[i]))}

\* the lines before the first marker line, as one text
C17_BeforeMarker(lines) ==
    Join(SubSeq(lines, 1, SetMin(C17_MarkerLines(lines)) - 1), <<"\n">>)

\* the text without its code-fence tokens
C17_WithoutFences(text) ==
    Replace(Replace(text, <<Backtick,Backtick,Backtick,"c","y","p","h","e","r">>, <<>>), <<Backtick,Backtick,Backtick>>, <<>>)

\* C17 as stated: the result is that of the lines preceding the first line
\* of the input that contains an explanation marker; that line and the
\* later ones contribute nothing.
C17_StopsAtInputMarkerLine ==
    pc = "cleaned" =>
        LET lines == Split(ai_text, "\n")
        IN  C17_MarkerLines(lines) # {}
                => cleaned[1] = _clean_cypher_response(C17_BeforeMarker(lines))

\* C17 amended: the result is that of the lines preceding the first line
\* that contains an explanation marker once the code-fence tokens have been
\* removed; that line and the later ones contribute nothing, and no marker
\* occurs in the result.
C17_StopsAtMarkerLine ==
    pc = "cleaned" =>
        LET lines == Split(C17_WithoutFences(ai_text), "\n")
        IN  /\ C17_MarkerLines(lines) # {}
                => cleaned[1] = _clean_cypher_response(C17_BeforeMarker(lines))
            /\ ~ AnyIn(explanation_markers, Lower(cleaned[1]))

\* a text whose first marker line is followed by a line with content
C17_Witness ==
    /\ pc = "cleaned"
    /\ LET lines == Split(C17_WithoutFences(ai_text), "\n")
       IN  /\ C17_MarkerLines(lines) # {}
           /\ \E j \in 1..Len(lines) :
                 /\ j > SetMin(C17_MarkerLines(lines))
                 /\ j \notin C17_MarkerLines(lines)
                 /\ Strip(lines[j]) # <<>>
                 /\ ~ StartsWith(lines[j], <<"/","/">>)
           /\ cleaned[1] = _clean_cypher_response(C17_BeforeMarker(lines))

\* the lines without line i, as one text
C18_WithoutLine(lines, i) ==
    Join(SubSeq(lines, 1, i - 1) \o SubSeq(lines, i + 1, Len(lines)), <<"\n">>)

\* C18: deleting a comment line (a line starting with '//') from the text
\* does not change the Sanitizer's result.
C18_CommentLinesInert ==
    pc = "cleaned" =>
        LET lines == Split(ai_text, "\n")
        IN  \A i \in 1..Len(lines) :
                StartsWith(lines[i], <<"/","/">>)
                    => _clean_cypher_response(C18_WithoutLine(lines, i)) = cleaned[1]

\* C19: the Sanitizer's result contains no code fence, has no leading or
\* trailing whitespace and does not end with ';'.
C19_CleanResult ==
    pc = "cleaned" =>
        LET out == cleaned[1]
        IN  /\ ~ Contains(out, <<Backtick,Backtick,Backtick>>)
            /\ out # <<>> => /\ out[1] \notin Whitespace
                             /\ out[Len(out)] \notin Whitespace
                             /\ out[Len(out)] # ";"

\* the dicts a call holds: its record and, while extract_entities runs in
\* it, the dict of that frame
C21_Objects(f) ==
    (IF f.entities = Unbound THEN {} ELSE {f.entities.object})
        \cup (IF f.extract_entities = NotRunning THEN {}
              ELSE {f.extract_entities.entities.object})

\* C21: whatever the interleaving of the concurrent translate calls on the
\* one AIService instance,
\*  - no call writes the instance, and no dict that a call holds is held by
\*    another call or is the instance;
\*  - the keyword tables a call reads are, as long as they exist, the tables
\*    of the source, and the dict it fills is the dict display until it
\*    fills it;
\*  - the record of a call is, as long as the call runs, the one a call
\*    alone extracts from its utterance (none when its first print call
\*    raised), before and after the prompt was built from it;
\*  - the call ends as generate_cypher_query ends for its utterance and its
\*    backend's behaviour alone.
C21_CallsIndependent ==
    /\ heap[Self] = AIServiceObject
    /\ \A p \in DOMAIN frames :
           LET f == frames[p]
               alone == generate_cypher_query(f.utterance, f.ai_kind, f.ai_text,
                                              stdout)
           IN  /\ Self \notin C21_Objects(f)
               /\ C21_Objects(f) \subseteq DOMAIN heap
               /\ \A q \in DOMAIN frames \ {p} :
                      C21_Objects(f) \cap C21_Objects(frames[q]) = {}
               /\ f.pc = "extract"
                      => /\ f.extract_entities.tables = Tables
                         /\ heap[f.extract_entities.entities.object] = entities_display
               /\ f.pc \in {"call_groq", "clean", "except"}
                      => IF print_raises(printed(388, f.utterance), stdout)
                                # NoException
                         THEN f.entities = Unbound
                         ELSE /\ f.entities # Unbound
                              /\ heap[f.entities.object] = extract_entities(f.utterance)
               /\ f.pc = "done" => alone = [returned |-> f.cypher_query]
               /\ f.pc = "raised" => alone = [raised |-> f.exception]

\* a call has extracted its record, built its prompt from it and seen the
\* backend raise, all while another call, for a different utterance, was
\* inside extract_entities with its dict and its tables built
C21_Witness ==
    \E p, q \in DOMAIN frames :
        /\ frames[p].pc = "except" /\ frames[p].ai_kind = "raise"
        /\ frames[q].pc = "extract"
        /\ frames[p].utterance # frames[q].utterance
        /\ frames[q].extract_entities.entities.object < frames[p].entities.object
        /\ heap[frames[p].entities.object]
               = extract_entities(frames[p].utterance)
        /\ heap[frames[p].entities.object].threshold # None

\* C22: once extract_entities has returned the record, no later step of the
\* call changes it: the record after the entities.get calls of _call_groq's
\* prompt, after the Sanitizer and after the entities.get calls of
\* intelligent_fallback is the record before them, field by field.  So the
\* query the except clause returns is the one intelligent_fallback
\* synthesizes from the record extract_entities made of the utterance.
C22_RecordNotMutated ==
    [][/\ (pc \in {"call_groq", "clean", "except"}) => (entities' = entities)
       /\ (pc = "except" /\ pc' = "done")
              => cypher_query' = intelligent_fallback(utterance,
                                                      extract_entities(utterance))]_vars

\* the prompt was built from the record, the backend raised, the fallback
\* has read the record and returned, and the record is still the extracted
\* one, with a threshold in it
C22_Witness ==
    /\ pc = "done"
    /\ calls.groq = 1
    /\ calls.fallback = 1
    /\ entities = extract_entities(utterance)
    /\ entities.threshold # None
    /\ cypher_query = intelligent_fallback(utterance, entities)

\* value is the earliest entry of the list that occurs in the lowercased
\* utterance, and is absent exactly when no entry occurs
C23_EarliestEntry(names, ql, value) ==
    IF \A i \in 1..Len(names) : ~ Contains(ql, names[i])
    THEN value = None
    ELSE \E i \in 1..Len(names) :
            /\ value = names[i]
            /\ Contains(ql, names[i])
            /\ \A j \in 1..(i - 1) : ~ Contains(ql, names[j])

\* value is the earliest role category one of whose triggers occurs in the
\* lowercased utterance, and is absent exactly when no trigger occurs
C23_EarliestCategory(ql, value) ==
    IF \A i \in 1..Len(roles) : ~ AnyIn(roles[i].keywords, ql)
    THEN value = None
    ELSE \E i \in 1..Len(roles) :
            /\ value = roles[i].key
            /\ AnyIn(roles[i].keywords, ql)
            /\ \A j \in 1..(i - 1) : ~ AnyIn(roles[j].keywords, ql)

\* C23: company, role category and skill are each the earliest entry of
\* their list with a substring hit in the lowercased utterance, whatever the
\* order of the hits in the utterance, and absent exactly when nothing hits;
\* an utterance containing 'javascript' (and not 'python') yields 'java'.
C23_ListOrderDecides ==
    pc \in {"extracted", "synthesized"} =>
        LET ql == Lower(utterance)
        IN  /\ C23_EarliestEntry(companies, ql, entities.company)
            /\ C23_EarliestCategory(ql, entities.role_keywords)
            /\ C23_EarliestEntry(common_skills, ql, entities.skill)
            /\ (Contains(ql, <<"j","a","v","a","s","c","r","i","p","t">>) /\ ~ Contains(ql, <<"p","y","t","h","o","n">>))
                   => entities.skill = <<"j","a","v","a">>

\* the utterance names amazon before google and the company is google
C23_Witness ==
    /\ pc = "extracted"
    /\ entities.company = <<"g","o","o","g","l","e">>
    /\ \E i, j \in 1..Len(utterance) :
          /\ i < j
          /\ MatchAt(Lower(utterance), <<"a","m","a","z","o","n">>, i)
          /\ MatchAt(Lower(utterance), <<"g","o","o","g","l","e">>, j)

\* where the leftmost match of pattern k starts in the utterance (0: no match)
C24_MatchStart(k, query) ==
    SetMin({i \in 1..Len(query) : PatternAt(student_patterns[k], query, i) # <<>>}
           \cup {Len(query) + 1}) % (Len(query) + 1)

\* C24: student_name is the lowercased capture of the first pattern, in
\* list order, that matches anywhere in the original-case utterance, even
\* when a later pattern matches further left; it holds no uppercase letter;
\* and it is absent when the utterance has no uppercase letter.
C24_FirstPatternWins ==
    pc \in {"extracted", "synthesized"} =>
        LET name == entities.student_name
            matching == {k \in 1..Len(student_patterns) :
                            C24_MatchStart(k, utterance) > 0}
        IN  /\ name = None <=> matching = {}
            /\ \A k \in matching :
                  (\A j \in matching : k <= j)
                      => name = Lower(re_search_name(student_patterns[k], utterance))
            /\ name # None => \A i \in 1..Len(name) : name[i] \notin UpperChars
            /\ (\A i \in 1..Len(utterance) : utterance[i] \notin UpperChars)
                  => name = None

\* the name comes from the first pattern ('for ...') although a later
\* pattern (the possessive) matches further left in the utterance
C24_Witness ==
    /\ pc = "extracted"
    /\ C24_MatchStart(1, utterance) > C24_MatchStart(3, utterance)
    /\ C24_MatchStart(3, utterance) > 0
    /\ entities.student_name = Lower(re_search_name(student_patterns[1], utterance))
    /\ entities.student_name # Lower(re_search_name(student_patterns[3], utterance))

\* the indices at which a threshold phrase starts in the lowercased
\* utterance: one of the four triggers, optional whitespace, a digit
C25_PhraseStarts(ql) ==
    {i \in 1..Len(ql) :
        \E t \in {<<">">>, <<"a","b","o","v","e">>, <<"g","r","e","a","t","e","r"," ","t","h","a","n">>, <<"m","o","r","e"," ","t","h","a","n">>} :
            /\ MatchAt(ql, t, i)
            /\ SkipSpace(ql, i + Len(t)) <= Len(ql)
            /\ ql[SkipSpace(ql, i + Len(t))] \in DigitChars}

\* the number that follows the threshold phrase starting at index i
C25_NumberAfter(ql, i) ==
    LET t == CHOOSE t \in {<<">">>, <<"a","b","o","v","e">>, <<"g","r","e","a","t","e","r"," ","t","h","a","n">>, <<"m","o","r","e"," ","t","h","a","n">>} :
                 MatchAt(ql, t, i)
        j == SkipSpace(ql, i + Len(t))
    IN  float(SubSeq(ql, j, NumberEnd(ql, j)))

\* the utterance expresses no bound with '>' directly before a number or
\* with 'above', 'greater than' or 'more than'
C25_OnlyOtherBounds(ql) ==
    /\ ~ Contains(ql, <<"a","b","o","v","e">>)
    /\ ~ Contains(ql, <<"g","r","e","a","t","e","r"," ","t","h","a","n">>)
    /\ ~ Contains(ql, <<"m","o","r","e"," ","t","h","a","n">>)
    /\ \A i \in 1..Len(ql) : ql[i] = ">" => (i < Len(ql) /\ ql[i + 1] = "=")

\* C25: threshold is present exactly when the lowercased utterance has one
\* of '>', 'above', 'greater than', 'more than' followed, after optional
\* whitespace, by a number, and is then the number after the leftmost such
\* phrase; bounds written with '<', 'below', 'less than' or '>=' leave it
\* absent.
C25_ThresholdTriggers ==
    pc \in {"extracted", "synthesized"} =>
        LET ql == Lower(utterance)
            starts == C25_PhraseStarts(ql)
        IN  /\ entities.threshold # None <=> starts # {}
            /\ starts # {} => entities.threshold = C25_NumberAfter(ql, SetMin(starts))
            /\ C25_OnlyOtherBounds(ql) => entities.threshold = None

\* two threshold phrases with different numbers: the first one was taken
C25_Witness ==
    /\ pc = "extracted"
    /\ \E i, j \in C25_PhraseStarts(Lower(utterance)) :
          /\ i < j
          /\ C25_NumberAfter(Lower(utterance), i) # C25_NumberAfter(Lower(utterance), j)
          /\ entities.threshold = C25_NumberAfter(Lower(utterance), i)

\* the role filter clause for a category
C26_RoleClause(role) == "AND toLower(i.role) CONTAINS '" \o Str(role) \o "'"

\* C26: in the course-gap-filling template (branch 3) and the skill-gap
\* template (branch 4) the role filter clause is present exactly if
\* role_keywords is in the record, and then names exactly that category;
\* the student name and company inlined are those of the record.
C26_RoleFilterIffRole ==
    (pc = "synthesized" /\ LowestBranch(utterance, entities) \in {3, 4}) =>
        LET student == entities.student_name
            company == entities.company
            role    == entities.role_keywords
            clause  == IF role = None THEN "" ELSE C26_RoleClause(role)
        IN  /\ role_filter(role) = clause
            /\ cypher_query =
                   IF LowestBranch(utterance, entities) = 3
                   THEN course_template(student, company, role)
                   ELSE gap_template(student, company, role)
            /\ role # None =>
                   /\ cypher_query # course_template(student, company, None)
                   /\ cypher_query # gap_template(student, company, None)
            /\ \A other \in {<<"b","o","b"," ","s","m","i","t","h">>, <<"a","l","i","c","e">>, <<"a","m","a","z","o","n">>, <<"g","o","o","g","l","e">>} :
                   /\ other # student =>
                          cypher_query \notin {course_template(other, company, role),
                                               gap_template(other, company, role)}
                   /\ other # company =>
                          cypher_query \notin {course_template(student, other, role),
                                               gap_template(student, other, role)}

\* a skill-gap query for a record with a role category, and the clause is in it
C26_Witness ==
    /\ pc = "synthesized"
    /\ LowestBranch(utterance, entities) = 4
    /\ entities.role_keywords # None
    /\ cypher_query = gap_template(entities.student_name, entities.company,
                                   entities.role_keywords)
    /\ role_filter(entities.role_keywords) = C26_RoleClause(entities.role_keywords)

\* C27: the average-GPA-by-major template is emitted only for aggregation
\* utterances that mention 'gpa' and not 'major'; an aggregation utterance
\* mentioning both, with no earlier branch applicable (such as 'Average GPA
\* by major'), gets the count-by-major template.
C27_MajorBeforeGpa ==
    pc = "synthesized" =>
        /\ cypher_query = average_gpa_template
               => /\ entities.query_type = <<"a","g","g","r","e","g","a","t","i","o","n">>
                  /\ Mentions(utterance, <<"g","p","a">>)
                  /\ ~ Mentions(utterance, <<"m","a","j","o","r">>)
        /\ (/\ entities.query_type = <<"a","g","g","r","e","g","a","t","i","o","n">>
            /\ Mentions(utterance, <<"g","p","a">>)
            /\ Mentions(utterance, <<"m","a","j","o","r">>)
            /\ \A k \in 1..7 : ~ BranchPre(k, utterance, entities))
               => cypher_query = count_by_major_template
        /\ utterance = <<"A","v","e","r","a","g","e"," ","G","P","A"," ","b","y"," ","m","a","j","o","r">>
               => /\ entities.query_type = <<"a","g","g","r","e","g","a","t","i","o","n">>
                  /\ cypher_query = count_by_major_template

\* 'Average GPA by major' was answered with the count-by-major template
C27_Witness ==
    /\ pc = "synthesized"
    /\ utterance = <<"A","v","e","r","a","g","e"," ","G","P","A"," ","b","y"," ","m","a","j","o","r">>
    /\ cypher_query = count_by_major_template
    /\ cypher_query # average_gpa_template

\* C28: execute_query never raises; without a connection, or when the
\* database raises during execution, it returns success = False with an
\* error message, data = [] and count = 0; otherwise success = True; and
\* count is the number of rows in data.
C28_ExecuteQueryTotal ==
    pc \in {"executed", "responded"} =>
        /\ "raised" \notin DOMAIN result
        /\ result.success = (recommender.driver # "None" /\ ~ db.fails)
        /\ ~ result.success => /\ result.error # <<>>
                               /\ result.data = <<>>
                               /\ result.count = 0
        /\ result.count = Len(result.data)

\* C29: GET /api/student/{id} answers 404 when the profile query fails or
\* returns no row, GET /api/internships/{id} and GET /api/skill-gap answer
\* 404 when their query is unsuccessful, and 500 is used only for
\* unexpected exceptions.
C29_NotFoundIs404 ==
    (pc = "responded" /\ "raised" \notin DOMAIN result) =>
        /\ (endpoint = "/api/student/{student_id}"
            /\ (~ result.success \/ result.data = <<>>)) => status = 404
        /\ (endpoint \in {"/api/internships/{student_id}", "/api/skill-gap"}
            /\ ~ result.success) => status = 404

(***************************************************************************)
(* C30: on the natural-language page, once the runs after a click on       *)
(* Search with a non-empty question have settled, the session state holds  *)
(* query_source = 'manual' and execute_query = the question, and the       *)
(* result of the question is what the page shows, whatever the select box  *)
(* of pre-built queries holds.                                             *)
(***************************************************************************)
C30_SearchSettlesManual ==
    (/\ pc = "settled"
     /\ event.kind = "search"
     /\ widgets.manual_query_input # <<>>) =>
        /\ session_state = [execute_query |-> widgets.manual_query_input,
                            query_source  |-> <<"m","a","n","u","a","l">>]
        /\ shown = [kind |-> "manual", query |-> widgets.manual_query_input,
                    warning |-> FALSE]

\* the same, for a select box that is on its first entry
C30_SearchSettlesManualUnselected ==
    (/\ pc = "settled"
     /\ event.kind = "search"
     /\ widgets.manual_query_input # <<>>
     /\ widgets.complex_query_select = query_placeholder) =>
        /\ session_state = [execute_query |-> widgets.manual_query_input,
                            query_source  |-> <<"m","a","n","u","a","l">>]
        /\ shown = [kind |-> "manual", query |-> widgets.manual_query_input,
                    warning |-> FALSE]
====
